---- MODULE Spec2Model ----
(***************************************************************************)
(* A model of the feed-to-document pipeline of the three generators        *)
(* (news_generator.py, tech_generator.py, gaming_generator.py).            *)
(*                                                                         *)
(* Text is modelled as a sequence of one-character strings, so that the    *)
(* substring searches of the code (str.find, str.rfind, startswith, ...)   *)
(* are computed on the characters and not assumed.  Positions are 0-based, *)
(* as in Python; -1 is "not found".                                        *)
(***************************************************************************)
EXTENDS Integers, Sequences, FiniteSets, TLC

\* ------------------------------------------------------------------------
\* Bounds of the model
\* ------------------------------------------------------------------------
MaxItems == 4
MaxCfg == 2
MaxLongLen == 13
MaxFiles == 3
MaxChunks == 4
MaxSummaryChunks == 4
MaxFeeds == 3
MaxFeedItems == 2

\* ------------------------------------------------------------------------
\* Program constants
\* ------------------------------------------------------------------------
MAX_ARTICLES == 10

Verticals == {"news", "tech", "gaming"}

\* ------------------------------------------------------------------------
\* Python's sequence primitives
\* ------------------------------------------------------------------------
MinOf(S) == CHOOSE x \in S : \A y \in S : x <= y
MaxOf(S) == CHOOSE x \in S : \A y \in S : x >= y

\* Python clamps a slice bound: negative counts from the end.
PyIndex(n, i) == IF i < 0 THEN (IF n + i < 0 THEN 0 ELSE n + i) ELSE (IF i > n THEN n ELSE i)

\* s[a:b]
PySlice(s, a, b) == SubSeq(s, PyIndex(Len(s), a) + 1, PyIndex(Len(s), b))
\* s[:b]
PySliceTo(s, b) == PySlice(s, 0, b)
\* s[a:]
PySliceFrom(s, a) == PySlice(s, a, Len(s))

\* s.find(sub, start): lowest index >= start where sub occurs, else -1
PyFind(s, sub, start) ==
    LET from == PyIndex(Len(s), start)
        hits == { i \in from..(Len(s) - Len(sub)) : SubSeq(s, i + 1, i + Len(sub)) = sub }
    IN IF hits = {} THEN -1 ELSE MinOf(hits)

\* s.rfind(sub, start, end): highest index where sub occurs within s[start:end], else -1
PyRFind(s, sub, start, end) ==
    LET from == PyIndex(Len(s), start)
        to == PyIndex(Len(s), end)
        hits == { i \in from..(to - Len(sub)) : SubSeq(s, i + 1, i + Len(sub)) = sub }
    IN IF hits = {} THEN -1 ELSE MaxOf(hits)

StartsWith(s, p) == Len(s) >= Len(p) /\ SubSeq(s, 1, Len(p)) = p
EndsWith(s, p) == Len(s) >= Len(p) /\ SubSeq(s, Len(s) - Len(p) + 1, Len(s)) = p
Contains(s, sub) == PyFind(s, sub, 0) # -1

\* ------------------------------------------------------------------------
\* Python's string primitives
\* ------------------------------------------------------------------------
UpperLetters == <<"A", "B", "C", "D", "E", "F", "G", "H", "I", "J", "K", "L", "M", "N", "O", "P", "Q", "R", "S", "T", "U", "V", "W", "X", "Y", "Z">>
LowerLetters == <<"a", "b", "c", "d", "e", "f", "g", "h", "i", "j", "k", "l", "m", "n", "o", "p", "q", "r", "s", "t", "u", "v", "w", "x", "y", "z">>
Digits == <<"0", "1", "2", "3", "4", "5", "6", "7", "8", "9">>
Whitespace == {" ", "\n", "\t"}

IndexIn(seq, x) == IF \E i \in 1..Len(seq) : seq[i] = x
                   THEN MinOf({ i \in 1..Len(seq) : seq[i] = x }) ELSE 0
LowerChar(c) == IF IndexIn(UpperLetters, c) > 0 THEN LowerLetters[IndexIn(UpperLetters, c)] ELSE c
UpperChar(c) == IF IndexIn(LowerLetters, c) > 0 THEN UpperLetters[IndexIn(LowerLetters, c)] ELSE c
\* s.lower(), s.upper()
Lower(s) == [i \in 1..Len(s) |-> LowerChar(s[i])]
Upper(s) == [i \in 1..Len(s) |-> UpperChar(s[i])]

IsDigit(c) == IndexIn(Digits, c) > 0
DigitVal(c) == IndexIn(Digits, c) - 1
IsDigits(s) == Len(s) > 0 /\ \A i \in 1..Len(s) : IsDigit(s[i])

\* int(s) for a string of decimal digits
RECURSIVE IntOf(_)
IntOf(s) == IF s = <<>> THEN 0
            ELSE 10 * IntOf(SubSeq(s, 1, Len(s) - 1)) + DigitVal(s[Len(s)])

\* s.split(c): the pieces between the occurrences of the character c
RECURSIVE SplitOn(_, _)
SplitOn(s, c) ==
    LET i == PyFind(s, <<c>>, 0)
    IN IF i = -1 THEN <<s>>
       ELSE <<PySliceTo(s, i)>> \o SplitOn(PySliceFrom(s, i + 1), c)

\* s.split(sep) for a separator of several characters
RECURSIVE SplitOnStr(_, _)
SplitOnStr(s, sep) ==
    LET i == PyFind(s, sep, 0)
    IN IF i = -1 THEN <<s>>
       ELSE <<PySliceTo(s, i)>> \o SplitOnStr(PySliceFrom(s, i + Len(sep)), sep)

\* s.split(): the maximal runs of non-whitespace characters
RECURSIVE SplitWs(_)
SplitWs(s) ==
    IF s = <<>> THEN <<>>
    ELSE IF s[1] \in Whitespace THEN SplitWs(Tail(s))
    ELSE LET ends == { i \in 1..Len(s) : s[i] \in Whitespace }
             n == IF ends = {} THEN Len(s) ELSE MinOf(ends) - 1
         IN <<SubSeq(s, 1, n)>> \o SplitWs(SubSeq(s, n + 1, Len(s)))

\* s.strip(): leading and trailing whitespace removed
RECURSIVE LStripSet(_, _)
LStripSet(s, cs) == IF s # <<>> /\ s[1] \in cs THEN LStripSet(Tail(s), cs) ELSE s
RECURSIVE RStripSet(_, _)
RStripSet(s, cs) == IF s # <<>> /\ s[Len(s)] \in cs
                    THEN RStripSet(SubSeq(s, 1, Len(s) - 1), cs) ELSE s
StripSet(s, cs) == RStripSet(LStripSet(s, cs), cs)
Strip(s) == StripSet(s, Whitespace)

\* sep.join(parts)
RECURSIVE Join(_, _)
Join(sep, parts) ==
    IF parts = <<>> THEN <<>>
    ELSE IF Len(parts) = 1 THEN parts[1]
    ELSE parts[1] \o sep \o Join(sep, Tail(parts))

\* the decimal digits of n, zero-padded to the given width (strftime's %Y, %m, %d)
RECURSIVE ZeroPad(_, _)
ZeroPad(n, width) ==
    IF width = 0 THEN <<>>
    ELSE ZeroPad(n \div 10, width - 1) \o <<Digits[(n % 10) + 1]>>

\* ------------------------------------------------------------------------
\* email.utils.parsedate_to_datetime, as the date normalizers call it
\* ------------------------------------------------------------------------
DayNames == <<<<"m", "o", "n">>, <<"t", "u", "e">>, <<"w", "e", "d">>, <<"t", "h", "u">>, <<"f", "r", "i">>, <<"s", "a", "t">>, <<"s", "u", "n">>>>
MonthNames ==
    <<<<"j", "a", "n">>,
      <<"f", "e", "b">>,
      <<"m", "a", "r">>,
      <<"a", "p", "r">>,
      <<"m", "a", "y">>,
      <<"j", "u", "n">>,
      <<"j", "u", "l">>,
      <<"a", "u", "g">>,
      <<"s", "e", "p">>,
      <<"o", "c", "t">>,
      <<"n", "o", "v">>,
      <<"d", "e", "c">>,
      <<"j", "a", "n", "u", "a", "r", "y">>,
      <<"f", "e", "b", "r", "u", "a", "r", "y">>,
      <<"m", "a", "r", "c", "h">>,
      <<"a", "p", "r", "i", "l">>,
      <<"m", "a", "y">>,
      <<"j", "u", "n", "e">>,
      <<"j", "u", "l", "y">>,
      <<"a", "u", "g", "u", "s", "t">>,
      <<"s", "e", "p", "t", "e", "m", "b", "e", "r">>,
      <<"o", "c", "t", "o", "b", "e", "r">>,
      <<"n", "o", "v", "e", "m", "b", "e", "r">>,
      <<"d", "e", "c", "e", "m", "b", "e", "r">>>>
TimezoneNames == <<<<"U", "T">>, <<"U", "T", "C">>, <<"G", "M", "T">>, <<"Z">>, <<"A", "S", "T">>, <<"A", "D", "T">>, <<"E", "S", "T">>, <<"E", "D", "T">>, <<"C", "S", "T">>, <<"C", "D", "T">>, <<"M", "S", "T">>, <<"M", "D", "T">>, <<"P", "S", "T">>, <<"P", "D", "T">>>>
TimezoneOffsets == <<0, 0, 0, 0, -400, -300, -500, -400, -600, -500, -700, -600, -800, -700>>

NoDate == [ok |-> FALSE]

\* the optional day name in front: skipped, or cut off at its comma
PdSkipDayName(data) ==
    IF data = <<>> THEN data
    ELSE IF EndsWith(data[1], <<",">>) \/ IndexIn(DayNames, Lower(data[1])) > 0
    THEN Tail(data)
    ELSE LET i == PyRFind(data[1], <<",">>, 0, Len(data[1]))
         IN IF i >= 0 THEN <<PySliceFrom(data[1], i + 1)>> \o Tail(data) ELSE data

\* the RFC 850 form dd-mmm-yy in one word
PdRfc850(data) ==
    IF Len(data) = 3
    THEN LET stuff == SplitOn(data[1], "-")
         IN IF Len(stuff) = 3 THEN stuff \o Tail(data) ELSE data
    ELSE data

\* a zone glued to the time, or no zone at all
PdSignAt(w) == IF PyFind(w, <<"+">>, 0) = -1 THEN PyFind(w, <<"-">>, 0) ELSE PyFind(w, <<"+">>, 0)
PdSplitZone(data) ==
    IF Len(data) = 4
    THEN IF PdSignAt(data[4]) > 0
         THEN SubSeq(data, 1, 3) \o <<PySliceTo(data[4], PdSignAt(data[4])), PySliceFrom(data[4], PdSignAt(data[4]))>>
         ELSE Append(data, <<>>)
    ELSE data

\* w with one trailing comma dropped
StripComma(w) == IF w # <<>> /\ w[Len(w)] = "," THEN PySliceTo(w, Len(w) - 1) ELSE w

\* hh:mm, hh:mm:ss, or the same with dots; <<>> when it is none of them
PdTimeParts(c, d) ==
    IF Len(c) = 2 THEN <<c[1], c[2], <<"0">>>>
    ELSE IF Len(c) = 3 THEN c
    ELSE IF Len(c) = 1 /\ Len(d) = 2 THEN <<d[1], d[2], <<"0">>>>
    ELSE IF Len(c) = 1 /\ Len(d) = 3 THEN d
    ELSE <<>>
PdTime(tm) == PdTimeParts(SplitOn(StripComma(tm), ":"), SplitOn(StripComma(tm), "."))

\* the zone: a name of the table, or int(tz) for a signed run of digits
PdZoneSigned(tz) == Len(tz) > 1 /\ tz[1] \in {"+", "-"} /\ IsDigits(Tail(tz))
PdZoneValue(tz) ==
    IF IndexIn(TimezoneNames, Upper(tz)) > 0 THEN TimezoneOffsets[IndexIn(TimezoneNames, Upper(tz))]
    ELSE IF PdZoneSigned(tz) THEN (IF tz[1] = "-" THEN 0 - IntOf(Tail(tz)) ELSE IntOf(Tail(tz)))
    ELSE IF IsDigits(tz) THEN IntOf(tz)
    ELSE 0
PdZoneKnown(tz) ==
    /\ IndexIn(TimezoneNames, Upper(tz)) > 0 \/ PdZoneSigned(tz) \/ IsDigits(tz)
    /\ ~(PdZoneValue(tz) = 0 /\ StartsWith(tz, <<"-">>))
\* -0500 -> -18000
PdZoneSeconds(v) ==
    IF v < 0 THEN 0 - (((0 - v) \div 100) * 3600 + ((0 - v) % 100) * 60)
    ELSE (v \div 100) * 3600 + (v % 100) * 60
PdZone(tz) == [known |-> PdZoneKnown(tz), seconds |-> PdZoneSeconds(PdZoneValue(tz))]

\* a two-digit year is 1969..1999 or 2000..2068
PdYear(y) == IF y < 100 THEN (IF y > 68 THEN y + 1900 ELSE y + 2000) ELSE y

PdNumbers(dd, mIdx, yy, tm, tz) ==
    IF tm = <<>> THEN NoDate
    ELSE IF ~(IsDigits(yy) /\ IsDigits(dd) /\ IsDigits(tm[1]) /\ IsDigits(tm[2]) /\ IsDigits(tm[3]))
    THEN NoDate
    ELSE [ok |-> TRUE, year |-> PdYear(IntOf(yy)),
          month |-> IF mIdx > 12 THEN mIdx - 12 ELSE mIdx, day |-> IntOf(dd),
          hour |-> IntOf(tm[1]), minute |-> IntOf(tm[2]), second |-> IntOf(tm[3]),
          zone |-> PdZone(tz)]

\* a year that does not start with a digit is taken to be the zone
PdYearZone(dd, mIdx, yy, tm, tz) ==
    IF yy = <<>> THEN NoDate
    ELSE IF ~IsDigit(yy[1]) THEN PdNumbers(dd, mIdx, tz, PdTime(tm), yy)
    ELSE PdNumbers(dd, mIdx, yy, PdTime(tm), tz)

\* a year holding a colon is taken to be the time
PdYearTime(dd, mIdx, yy, tm, tz) ==
    IF PyFind(yy, <<":">>, 0) > 0
    THEN PdYearZone(dd, mIdx, StripComma(tm), yy, tz)
    ELSE PdYearZone(dd, mIdx, StripComma(yy), tm, tz)

\* month name second, or else first
PdMonth(dd, mm, yy, tm, tz) ==
    IF IndexIn(MonthNames, Lower(mm)) > 0
    THEN PdYearTime(StripComma(dd), IndexIn(MonthNames, Lower(mm)), yy, tm, tz)
    ELSE IF IndexIn(MonthNames, Lower(dd)) > 0
    THEN PdYearTime(StripComma(Lower(mm)), IndexIn(MonthNames, Lower(dd)), yy, tm, tz)
    ELSE NoDate

PdFields(data) ==
    IF data[1] = <<>> \/ data[2] = <<>> \/ data[3] = <<>> THEN NoDate
    ELSE PdMonth(data[1], data[2], data[3], data[4], data[5])

ParsedateTz(raw) ==
    LET data == PdSplitZone(PdRfc850(PdSkipDayName(SplitWs(raw))))
    IN IF SplitWs(raw) = <<>> THEN NoDate
       ELSE IF Len(data) < 5 THEN NoDate
       ELSE PdFields(SubSeq(data, 1, 5))

IsLeap(y) == (y % 4 = 0 /\ y % 100 # 0) \/ y % 400 = 0
DaysInMonth(y, m) ==
    IF m = 2 THEN (IF IsLeap(y) THEN 29 ELSE 28)
    ELSE IF m \in {4, 6, 9, 11} THEN 30 ELSE 31

\* datetime.datetime(...) and datetime.timezone(...) accept these values only
DatetimeAccepts(p) ==
    /\ p.year \in 1..9999
    /\ p.month \in 1..12
    /\ p.day >= 1 /\ p.day <= DaysInMonth(p.year, p.month)
    /\ p.hour \in 0..23 /\ p.minute \in 0..59 /\ p.second \in 0..59
    /\ (p.zone.known => (p.zone.seconds > 0 - 86400 /\ p.zone.seconds < 86400))

\* parsedate_to_datetime(raw): the datetime, or raised (ValueError, TypeError)
ParsedateToDatetime(raw) ==
    LET p == ParsedateTz(raw)
    IN IF ~p.ok THEN [raised |-> TRUE]
       ELSE IF ~DatetimeAccepts(p) THEN [raised |-> TRUE]
       ELSE [raised |-> FALSE, year |-> p.year, month |-> p.month, day |-> p.day]

\* dt.date().strftime("%Y-%m-%d")
StrftimeYmd(dt) == ZeroPad(dt.year, 4) \o <<"-">> \o ZeroPad(dt.month, 2) \o <<"-">> \o ZeroPad(dt.day, 2)

\* ------------------------------------------------------------------------
\* Python's string order, strptime and strftime, as the archive index uses them
\* ------------------------------------------------------------------------
\* printable characters in code-point order (str comparison is by code point)
AsciiOrder ==
    <<" ", "!", "\"", "#", "$", "%", "&", "'", "(", ")", "*", "+", ",", "-", ".", "/", "0", "1", "2", "3", "4", "5", "6", "7", "8", "9", ":", ";", "<", "=", ">", "?", "@", "A", "B", "C", "D", "E", "F", "G", "H", "I", "J", "K", "L", "M", "N", "O", "P", "Q", "R", "S", "T", "U", "V", "W", "X", "Y", "Z", "[", "]", "^", "_", "a", "b", "c", "d", "e", "f", "g", "h", "i", "j", "k", "l", "m", "n", "o", "p", "q", "r", "s", "t", "u", "v", "w", "x", "y", "z", "{", "|", "}", "~">>
CodePoint(c) == IndexIn(AsciiOrder, c)

\* a < b for two strings
RECURSIVE StrLess(_, _)
StrLess(a, b) ==
    IF b = <<>> THEN FALSE
    ELSE IF a = <<>> THEN TRUE
    ELSE IF a[1] = b[1] THEN StrLess(Tail(a), Tail(b))
    ELSE CodePoint(a[1]) < CodePoint(b[1])

MonthFullNames ==
    <<<<"J", "a", "n", "u", "a", "r", "y">>,
      <<"F", "e", "b", "r", "u", "a", "r", "y">>,
      <<"M", "a", "r", "c", "h">>,
      <<"A", "p", "r", "i", "l">>,
      <<"M", "a", "y">>,
      <<"J", "u", "n", "e">>,
      <<"J", "u", "l", "y">>,
      <<"A", "u", "g", "u", "s", "t">>,
      <<"S", "e", "p", "t", "e", "m", "b", "e", "r">>,
      <<"O", "c", "t", "o", "b", "e", "r">>,
      <<"N", "o", "v", "e", "m", "b", "e", "r">>,
      <<"D", "e", "c", "e", "m", "b", "e", "r">>>>

NoParse == [ok |-> FALSE, year |-> 0, month |-> 0, day |-> 0]

\* the directive patterns of _strptime: %Y is \d\d\d\d, %m is 1[0-2]|0[1-9]|[1-9],
\* %d is 3[01]|[12]\d|0[1-9]|[1-9]| [1-9]
MatchesYear(w) == Len(w) = 4 /\ IsDigits(w)
MatchesMonth(w) ==
    \/ Len(w) = 2 /\ w[1] = "1" /\ w[2] \in {"0", "1", "2"}
    \/ Len(w) = 2 /\ w[1] = "0" /\ IsDigit(w[2]) /\ w[2] # "0"
    \/ Len(w) = 1 /\ IsDigit(w[1]) /\ w[1] # "0"
MatchesDay(w) ==
    \/ Len(w) = 2 /\ w[1] = "3" /\ w[2] \in {"0", "1"}
    \/ Len(w) = 2 /\ w[1] \in {"1", "2"} /\ IsDigit(w[2])
    \/ Len(w) = 2 /\ w[1] \in {"0", " "} /\ IsDigit(w[2]) /\ w[2] # "0"
    \/ Len(w) = 1 /\ IsDigit(w[1]) /\ w[1] # "0"

StrptimeDate(y, m, d) ==
    IF y >= 1 /\ d <= DaysInMonth(y, m)
    THEN [ok |-> TRUE, year |-> y, month |-> m, day |-> d]
    ELSE NoParse

\* datetime.datetime.strptime(slug, "%Y-%m-%d").date(), or ValueError (ok = FALSE)
StrptimeParts(parts) ==
    IF Len(parts) = 3 /\ MatchesYear(parts[1]) /\ MatchesMonth(parts[2]) /\ MatchesDay(parts[3])
    THEN StrptimeDate(IntOf(parts[1]), IntOf(parts[2]), IntOf(StripSet(parts[3], {" "})))
    ELSE NoParse
StrptimeYmd(slug) == StrptimeParts(SplitOn(slug, "-"))

\* dt.strftime("%B %d, %Y")
StrftimeLong(dt) ==
    MonthFullNames[dt.month] \o <<" ">> \o ZeroPad(dt.day, 2) \o <<",", " ">> \o ZeroPad(dt.year, 4)

\* ------------------------------------------------------------------------
\* State
\* ------------------------------------------------------------------------
VARIABLES
    vertical,       \* which generator runs
    \* --- ItemNormalizer (fetch_rss_items, the part after the feed loop)
    maxArticles,    \* the configured MAX_ARTICLES of the run
    items,          \* the raw items in fetch order
    seen,           \* set of titles already kept
    unique,         \* the deduplicated items so far
    idx,            \* number of raw items the loop has consumed
    npc,            \* "idle" | "dedup" | "slice" | "returned"
    batch,          \* the value fetch_rss_items returned
    \* --- date normalizer (format_pub_date / format_date)
    raw,            \* the raw pubDate text handed to the normalizer
    rawParts,       \* how the raw text was put together (history, not program state)
    dateOut,        \* what the normalizer returned, or that it raised
    dpc,            \* "idle" | "call" | "returned"
    \* --- ArchiveManager, the index (build_archive_list_items / build_gaming_archive_list_html)
    dirExists,      \* os.path.isdir(archive_dir)
    listing,        \* os.listdir(archive_dir), in the order the system returns it
    archiveOut,     \* what the builder returned
    apc,            \* "idle" | "call" | "returned"
    \* --- PageMutator (update_index_html, update_tech_page, update_gaming_page,
    \*     update_archive_list_on_index, update_gaming_archive_list_on_page)
    file,           \* the text of the target page on disk (index.html, tech.html, gaming.html)
    content,        \* the article_html / summary_html handed to the main-page mutation
    pageKind,       \* which region the run mutates: "article" | "archive"
    ppc,            \* "idle" | "start" | "once" | "twice": mutations applied so far
    lastOp,         \* outcome of the last mutation: raised or not, wrote or not, its timestamp
    file0,          \* the page before the first mutation (history)
    fileBefore,     \* the page before the last mutation (history)
    \* --- SummaryGenerator, the converter (main's block loop / convert_summary_to_html)
    summary,        \* the text the model returned
    summaryHtml,    \* the HTML the converter built from it
    cpc,            \* "idle" | "call" | "returned"
    \* --- FeedFetcher (fetch_rss_items, the feed loop)
    nFeeds,         \* length of the feed list
    responses,      \* what each feed tried so far answered (history)
    fetchErrors,    \* the feeds whose failure was caught and printed
    rawItems,       \* items: the raw items appended so far
    fpc,            \* "idle" | "start" | "loop" | "fetched" | "syntax_error"
    \* --- main: one run of a generator, from the fetch result on
    runItems,       \* what fetch_rss_items returned to main
    rpc,            \* the statement of main that runs next, or "idle" | "done" | "failed"
    effects,        \* the outward calls main has made, in order (history)
    dir0            \* the archive directory before the run (history)

normVars == <<maxArticles, items, seen, unique, idx, npc, batch>>
dateVars == <<raw, rawParts, dateOut, dpc>>
archVars == <<dirExists, listing, archiveOut, apc>>
pageVars == <<file, content, pageKind, ppc, lastOp, file0, fileBefore>>
convVars == <<summary, summaryHtml, cpc>>
fetchVars == <<nFeeds, responses, fetchErrors, rawItems, fpc>>
runVars == <<runItems, rpc, effects, dir0>>
vars == <<vertical, normVars, dateVars, archVars, pageVars, convVars, fetchVars, runVars>>

\* ------------------------------------------------------------------------
\* ItemNormalizer
\* ------------------------------------------------------------------------
TitlePool == <<"A", "B", "C", "D", "E", "F", "G", "H", "I", "J", "K", "L">>
SmallTitles == {"A", "B", "C"}

\* An item as the feed loop appends it.  The link field carries the item's
\* serial number in fetch order, so two items of one title stay distinct.
Item(t, k) == [title |-> t, link |-> k]

SmallItemSeqs ==
    UNION { { [k \in 1..n |-> Item(f[k], k)] : f \in [1..n -> SmallTitles] } : n \in 0..MaxItems }

\* Long fetches: n items cycling through the first m titles of the pool.
LongItemSeqs ==
    { [k \in 1..n |-> Item(TitlePool[((k - 1) % m) + 1], k)] :
        n \in (MAX_ARTICLES + 1)..MaxLongLen, m \in (MAX_ARTICLES - 1)..Len(TitlePool) }

NormIdle ==
    /\ maxArticles = 0 /\ items = <<>> /\ seen = {} /\ unique = <<>>
    /\ idx = 0 /\ npc = "idle" /\ batch = <<>>

DateIdle == raw = <<>> /\ rawParts = [kind |-> "none"] /\ dateOut = [raised |-> FALSE, value |-> <<>>] /\ dpc = "idle"

ArchIdle == dirExists = FALSE /\ listing = <<>> /\ archiveOut = <<>> /\ apc = "idle"

NoOp == [op |-> "none", error |-> FALSE, written |-> FALSE, ts |-> "none"]
PageIdle ==
    /\ file = <<>> /\ content = <<>> /\ pageKind = "none" /\ ppc = "idle"
    /\ lastOp = NoOp /\ file0 = <<>> /\ fileBefore = <<>>

ConvIdle == summary = <<>> /\ summaryHtml = <<>> /\ cpc = "idle"
FetchIdle ==
    nFeeds = 0 /\ responses = <<>> /\ fetchErrors = <<>> /\ rawItems = <<>> /\ fpc = "idle"
RunIdle ==
    runItems = <<>> /\ rpc = "idle" /\ effects = <<>> /\ dir0 = [exists |-> FALSE, listing |-> <<>>]

InitNorm ==
    /\ vertical \in Verticals
    /\ DateIdle /\ ArchIdle /\ PageIdle /\ ConvIdle /\ FetchIdle /\ RunIdle
    /\ \/ maxArticles \in 0..MaxCfg /\ items \in SmallItemSeqs
       \/ maxArticles = MAX_ARTICLES /\ items \in LongItemSeqs
    /\ seen = {} /\ unique = <<>> /\ idx = 0
    /\ npc = "dedup" /\ batch = <<>>

\* for it in items: if it["title"] not in seen: seen.add(...); unique.append(it)
MutDedupKeep(it, kept) == TRUE
DedupKeep(it, kept) == it.title \notin kept

DedupStep ==
    /\ npc = "dedup" /\ idx < Len(items)
    /\ LET it == items[idx + 1]
       IN IF DedupKeep(it, seen)
          THEN seen' = seen \cup {it.title} /\ unique' = Append(unique, it)
          ELSE UNCHANGED <<seen, unique>>
    /\ idx' = idx + 1
    /\ UNCHANGED <<vertical, maxArticles, items, npc, batch, dateVars, archVars, pageVars, convVars, fetchVars, runVars>>

DedupDone ==
    /\ npc = "dedup" /\ idx = Len(items)
    /\ npc' = "slice"
    /\ UNCHANGED <<vertical, maxArticles, items, seen, unique, idx, batch, dateVars, archVars, pageVars, convVars, fetchVars, runVars>>

\* return unique[:MAX_ARTICLES]
MutTruncate(u, n) == PySliceTo(u, n + 1)
Truncate(u, n) == PySliceTo(u, n)

ReturnBatch ==
    /\ npc = "slice"
    /\ batch' = Truncate(unique, maxArticles)
    /\ npc' = "returned"
    /\ UNCHANGED <<vertical, maxArticles, items, seen, unique, idx, dateVars, archVars, pageVars, convVars, fetchVars, runVars>>

NextNorm == DedupStep \/ DedupDone \/ ReturnBatch
SpecNorm == InitNorm /\ [][NextNorm]_vars

\* --- properties of the normalizer ---------------------------------------
TitlesOf(s) == { s[k].title : k \in 1..Len(s) }
IsFirstOccurrence(it) == \A k \in 1..(it.link - 1) : items[k].title # it.title
\* The deduplicated sequence, stated without the loop: the raw items that
\* have no earlier item of the same title, in fetch order.
FirstOccurrences == SelectSeq(items, IsFirstOccurrence)

C2_TruncatedPrefix ==
    npc = "returned" =>
        LET k == Len(FirstOccurrences)
            n == IF maxArticles < k THEN maxArticles ELSE k
        IN /\ Len(batch) <= maxArticles
           /\ batch = SubSeq(FirstOccurrences, 1, n)

C2_Witness ==
    /\ npc = "returned"
    /\ maxArticles = MAX_ARTICLES
    /\ Len(unique) > MAX_ARTICLES
    /\ Len(unique) < Len(items)
    /\ Len(batch) = MAX_ARTICLES

\* The end-to-end scenario of C2: titles A, B, A with a maximum of 2.
C2_ScenarioABA ==
    /\ npc = "returned"
    /\ maxArticles = 2
    /\ [k \in 1..Len(items) |-> items[k].title] = <<"A", "B", "A">>
    /\ [k \in 1..Len(batch) |-> batch[k].title] = <<"A", "B">>

\* ------------------------------------------------------------------------
\* Date normalizer
\* ------------------------------------------------------------------------
Returned(v) == [raised |-> FALSE, value |-> v]
Raised == [raised |-> TRUE, value |-> <<>>]

\* news_generator.format_pub_date
Mut_format_pub_date(r) ==
    IF r = <<>> THEN Returned(<<"U", "n", "k", "n", "o", "w", "n", " ", "d", "a", "t", "e">>)
    ELSE LET dt == ParsedateToDatetime(r)
         IN IF dt.raised THEN Returned(<<"U", "n", "k", "n", "o", "w", "n", " ", "d", "a", "t", "e">>) ELSE Returned(StrftimeYmd(dt))
format_pub_date(r) ==
    IF r = <<>> THEN Returned(<<"U", "n", "k", "n", "o", "w", "n", " ", "d", "a", "t", "e">>)
    ELSE LET dt == ParsedateToDatetime(r)
         IN IF dt.raised THEN Returned(r) ELSE Returned(StrftimeYmd(dt))

\* tech_generator.format_date
format_date_tech(r) ==
    IF r = <<>> THEN Returned(<<"U", "n", "k", "n", "o", "w", "n">>)
    ELSE LET dt == ParsedateToDatetime(r)
         IN IF dt.raised THEN Returned(r) ELSE Returned(StrftimeYmd(dt))

\* gaming_generator.format_date
format_date_gaming(r) ==
    IF r = <<>> THEN Returned(<<"U", "n", "k", "n", "o", "w", "n">>)
    ELSE LET dt == ParsedateToDatetime(r)
         IN IF dt.raised THEN Returned(r) ELSE Returned(StrftimeYmd(dt))

\* The raw dates tried: an optional day name, a day, a month name, a year,
\* a time and a zone, each drawn from a table that also records what the
\* word means on the calendar (n = 0: it means nothing), and a few texts
\* that are no RFC-2822 date at all.
DayNameWords == {<<>>, <<"M", "o", "n", ",">>}
DayWords == { [w |-> <<"0", "2">>, n |-> 2, out |-> <<"0", "2">>],
              [w |-> <<"2">>, n |-> 2, out |-> <<"0", "2">>],
              [w |-> <<"2", "9">>, n |-> 29, out |-> <<"2", "9">>],
              [w |-> <<"3", "1">>, n |-> 31, out |-> <<"3", "1">>],
              [w |-> <<"0">>, n |-> 0, out |-> <<>>] }
MonthWords == { [w |-> <<"J", "a", "n">>, n |-> 1, out |-> <<"0", "1">>, days |-> <<31, 31>>],
                [w |-> <<"F", "e", "b">>, n |-> 2, out |-> <<"0", "2">>, days |-> <<28, 29>>],
                [w |-> <<"F", "o", "o">>, n |-> 0, out |-> <<>>, days |-> <<0, 0>>] }
YearWords == { [w |-> <<"2", "0", "2", "4">>, out |-> <<"2", "0", "2", "4">>, leap |-> 2],
               [w |-> <<"2", "0", "2", "3">>, out |-> <<"2", "0", "2", "3">>, leap |-> 1],
               [w |-> <<"2", "4">>, out |-> <<"2", "0", "2", "4">>, leap |-> 2] }
TimeWords == { [w |-> <<"1", "0", ":", "0", "0", ":", "0", "0">>, ok |-> TRUE],
               [w |-> <<"2", "3", ":", "5", "9">>, ok |-> TRUE],
               [w |-> <<"2", "5", ":", "0", "0", ":", "0", "0">>, ok |-> FALSE] }
ZoneWords == { [w |-> <<"+", "0", "0", "0", "0">>, ok |-> TRUE],
               [w |-> <<"G", "M", "T">>, ok |-> TRUE],
               [w |-> <<"-", "0", "5", "0", "0">>, ok |-> TRUE],
               [w |-> <<>>, ok |-> TRUE],
               [w |-> <<"+", "2", "5", "0", "0">>, ok |-> FALSE] }
OtherRawDates == { <<>>, <<"y", "e", "s", "t", "e", "r", "d", "a", "y">>, <<"2", "0", "2", "4", "-", "0", "1", "-", "0", "2", "T", "1", "0", ":", "0", "0", ":", "0", "0", "Z">>, <<"0", "2", " ", "J", "a", "n", " ", "2", "0", "2", "4">>, <<"J", "a", "n", " ", "2", "0", "2", "4", " ", "1", "0", ":", "0", "0", ":", "0", "0", " ", "G", "M", "T">> }

RfcParts == [kind : {"rfc"}, dayname : DayNameWords, dd : DayWords, mm : MonthWords,
             yy : YearWords, tm : TimeWords, tz : ZoneWords]
RawOf(p) ==
    Join(<<" ">>, SelectSeq(<<p.dayname, p.dd.w, p.mm.w, p.yy.w, p.tm.w, p.tz.w>>,
                            LAMBDA w : w # <<>>))

InitDate ==
    /\ vertical \in Verticals
    /\ NormIdle /\ ArchIdle /\ PageIdle /\ ConvIdle /\ FetchIdle /\ RunIdle
    /\ \/ \E p \in RfcParts : rawParts = p /\ raw = RawOf(p)
       \/ \E r \in OtherRawDates : rawParts = [kind |-> "other"] /\ raw = r
    /\ dateOut = Returned(<<>>)
    /\ dpc = "call"

CallFormatPubDate ==
    /\ dpc = "call" /\ vertical = "news"
    /\ dateOut' = format_pub_date(raw)
    /\ dpc' = "returned"
    /\ UNCHANGED <<vertical, normVars, raw, rawParts, archVars, pageVars, convVars, fetchVars, runVars>>

CallFormatDateTech ==
    /\ dpc = "call" /\ vertical = "tech"
    /\ dateOut' = format_date_tech(raw)
    /\ dpc' = "returned"
    /\ UNCHANGED <<vertical, normVars, raw, rawParts, archVars, pageVars, convVars, fetchVars, runVars>>

CallFormatDateGaming ==
    /\ dpc = "call" /\ vertical = "gaming"
    /\ dateOut' = format_date_gaming(raw)
    /\ dpc' = "returned"
    /\ UNCHANGED <<vertical, normVars, raw, rawParts, archVars, pageVars, convVars, fetchVars, runVars>>

NextDate == CallFormatPubDate \/ CallFormatDateTech \/ CallFormatDateGaming
SpecDate == InitDate /\ [][NextDate]_vars

\* --- properties of the date normalizer -----------------------------------
\* What the words of a raw date mean, read off the tables and not parsed:
\* the date exists on the calendar and the time and zone are possible.
DenotesDate(p) ==
    /\ p.kind = "rfc"
    /\ p.mm.n > 0
    /\ p.dd.n >= 1 /\ p.dd.n <= p.mm.days[p.yy.leap]
    /\ p.tm.ok /\ p.tz.ok
WellFormedRfc2822(p) == DenotesDate(p) /\ p.tz.w # <<>>
CalendarDate(p) == p.yy.out \o <<"-">> \o p.mm.out \o <<"-">> \o p.dd.out
SentinelOf(v) == IF v = "news" THEN <<"U", "n", "k", "n", "o", "w", "n", " ", "d", "a", "t", "e">> ELSE <<"U", "n", "k", "n", "o", "w", "n">>

C3_WitnessWellFormed ==
    /\ dpc = "returned"
    /\ WellFormedRfc2822(rawParts)
    /\ raw = <<"M", "o", "n", ",", " ", "2", "9", " ", "F", "e", "b", " ", "2", "0", "2", "4", " ", "1", "0", ":", "0", "0", ":", "0", "0", " ", "+", "0", "0", "0", "0">>
    /\ dateOut.value = <<"2", "0", "2", "4", "-", "0", "2", "-", "2", "9">>

FilePool ==
    { [name |-> <<"2", "0", "2", "4", "-", "0", "1", "-", "0", "2", ".", "h", "t", "m", "l">>, html |-> TRUE, key |-> 20240102, canonical |-> TRUE, display |-> <<"J", "a", "n", "u", "a", "r", "y", " ", "0", "2", ",", " ", "2", "0", "2", "4">>],
      [name |-> <<"2", "0", "2", "4", "-", "0", "1", "-", "1", "0", ".", "h", "t", "m", "l">>, html |-> TRUE, key |-> 20240110, canonical |-> TRUE, display |-> <<"J", "a", "n", "u", "a", "r", "y", " ", "1", "0", ",", " ", "2", "0", "2", "4">>],
      [name |-> <<"2", "0", "2", "4", "-", "0", "1", "-", "0", "1", ".", "h", "t", "m", "l">>, html |-> TRUE, key |-> 20240101, canonical |-> TRUE, display |-> <<"J", "a", "n", "u", "a", "r", "y", " ", "0", "1", ",", " ", "2", "0", "2", "4">>],
      [name |-> <<"2", "0", "2", "3", "-", "1", "2", "-", "3", "1", ".", "h", "t", "m", "l">>, html |-> TRUE, key |-> 20231231, canonical |-> TRUE, display |-> <<"D", "e", "c", "e", "m", "b", "e", "r", " ", "3", "1", ",", " ", "2", "0", "2", "3">>],
      [name |-> <<"2", "0", "2", "4", "-", "1", "-", "9", ".", "h", "t", "m", "l">>, html |-> TRUE, key |-> 20240109, canonical |-> FALSE, display |-> <<"J", "a", "n", "u", "a", "r", "y", " ", "0", "9", ",", " ", "2", "0", "2", "4">>],
      [name |-> <<"2", "0", "2", "4", "-", "0", "2", "-", "3", "0", ".", "h", "t", "m", "l">>, html |-> TRUE, key |-> 0, canonical |-> FALSE, display |-> <<>>],
      [name |-> <<"n", "o", "t", "e", "s", ".", "h", "t", "m", "l">>, html |-> TRUE, key |-> 0, canonical |-> FALSE, display |-> <<>>],
      [name |-> <<"2", "0", "2", "4", "-", "0", "1", "-", "0", "3", ".", "j", "s", "o", "n">>, html |-> FALSE, key |-> 0, canonical |-> FALSE, display |-> <<>>] }
FileNames == { f.name : f \in FilePool }
FileOf(n) == CHOOSE f \in FilePool : f.name = n

\* directory listings: up to MaxFiles distinct names, in any order
Listings ==
    UNION { { l \in [1..n -> FileNames] : \A i, j \in 1..n : l[i] = l[j] => i = j } : n \in 0..MaxFiles }

\* --- news_generator.build_archive_list_items
NewsEntry(name, dt) ==
    [dt |-> <<dt.year, dt.month, dt.day>>, display |-> StrftimeLong(dt), url |-> <<"a", "r", "c", "h", "i", "v", "e", "s", "/">> \o name]

\* the (dt, display, url) tuples of the conforming names, in listing order
Mut_NewsKeeps(name) == StrptimeYmd(PySliceTo(name, Len(name) - 5)).ok
NewsKeeps(name) == EndsWith(name, <<".", "h", "t", "m", "l">>) /\ StrptimeYmd(PySliceTo(name, Len(name) - 5)).ok
RECURSIVE NewsEntries(_)
NewsEntries(l) ==
    IF l = <<>> THEN <<>>
    ELSE IF NewsKeeps(l[1])
    THEN <<NewsEntry(l[1], StrptimeYmd(PySliceTo(l[1], Len(l[1]) - 5)))>> \o NewsEntries(Tail(l))
    ELSE NewsEntries(Tail(l))

DateLess(a, b) ==
    \/ a[1] < b[1]
    \/ a[1] = b[1] /\ a[2] < b[2]
    \/ a[1] = b[1] /\ a[2] = b[2] /\ a[3] < b[3]
\* tuple comparison of two entries
NewsEntryLess(a, b) ==
    \/ DateLess(a.dt, b.dt)
    \/ a.dt = b.dt /\ StrLess(a.display, b.display)
    \/ a.dt = b.dt /\ a.display = b.display /\ StrLess(a.url, b.url)

\* entries.sort(reverse=True): descending, equal entries in their first order
RECURSIVE NewsInsertDesc(_, _)
Mut_NewsInsertDesc(r, x) == Append(r, x)
NewsInsertDesc(r, x) ==
    IF r = <<>> THEN <<x>>
    ELSE IF NewsEntryLess(r[1], x) THEN <<x>> \o r
    ELSE <<r[1]>> \o NewsInsertDesc(Tail(r), x)
RECURSIVE NewsSortDesc(_)
NewsSortDesc(e) ==
    IF e = <<>> THEN <<>>
    ELSE NewsInsertDesc(NewsSortDesc(SubSeq(e, 1, Len(e) - 1)), e[Len(e)])

NewsLi(e) == <<"<", "l", "i", ">", "<", "a", " ", "h", "r", "e", "f", "=", "\"">> \o e.url \o <<"\"", ">">> \o e.display \o <<"<", "/", "a", ">", "<", "/", "l", "i", ">">>
NewsLiList(e) == [k \in 1..Len(e) |-> NewsLi(e[k])]

build_archive_list_items(isdir, l) ==
    IF ~isdir THEN <<>> ELSE NewsLiList(NewsSortDesc(NewsEntries(l)))

\* --- gaming_generator.build_gaming_archive_list_html
GamingDisplay(slug) == IF StrptimeYmd(slug).ok THEN StrftimeLong(StrptimeYmd(slug)) ELSE slug
GamingEntry(name) ==
    [slug |-> PySliceTo(name, Len(name) - 5), display |-> GamingDisplay(PySliceTo(name, Len(name) - 5))]
RECURSIVE GamingEntries(_)
GamingEntries(l) ==
    IF l = <<>> THEN <<>>
    ELSE IF EndsWith(l[1], <<".", "h", "t", "m", "l">>) THEN <<GamingEntry(l[1])>> \o GamingEntries(Tail(l))
    ELSE GamingEntries(Tail(l))

\* entries.sort(reverse=True, key=lambda x: x[0])
RECURSIVE GamingInsertDesc(_, _)
GamingInsertDesc(r, x) ==
    IF r = <<>> THEN <<x>>
    ELSE IF StrLess(r[1].slug, x.slug) THEN <<x>> \o r
    ELSE <<r[1]>> \o GamingInsertDesc(Tail(r), x)
RECURSIVE GamingSortDesc(_)
GamingSortDesc(e) ==
    IF e = <<>> THEN <<>>
    ELSE GamingInsertDesc(GamingSortDesc(SubSeq(e, 1, Len(e) - 1)), e[Len(e)])

GamingLi(e) == <<"<", "l", "i", ">", "<", "a", " ", "h", "r", "e", "f", "=", "\"", "g", "a", "m", "i", "n", "g", "_", "a", "r", "c", "h", "i", "v", "e", "s", "/">> \o e.slug \o <<".", "h", "t", "m", "l", "\"", ">">> \o e.display \o <<"<", "/", "a", ">", "<", "/", "l", "i", ">">>
GamingLiList(e) == [k \in 1..Len(e) |-> GamingLi(e[k])]
GamingEmptyLi == <<"<", "l", "i", " ", "c", "l", "a", "s", "s", "=", "\"", "a", "r", "c", "h", "i", "v", "e", "-", "e", "m", "p", "t", "y", "\"", ">", "N", "o", " ", "p", "r", "e", "v", "i", "o", "u", "s", " ", "g", "a", "m", "i", "n", "g", " ", "d", "i", "g", "e", "s", "t", "s", " ", "y", "e", "t", ".", "<", "/", "l", "i", ">">>

build_gaming_archive_list_html(isdir, l) ==
    IF ~isdir THEN GamingEmptyLi
    ELSE IF GamingEntries(l) = <<>> THEN GamingEmptyLi
    ELSE Join(<<"\n">>, GamingLiList(GamingSortDesc(GamingEntries(l))))

InitArchive ==
    /\ vertical \in {"news", "gaming"}
    /\ NormIdle /\ DateIdle /\ PageIdle /\ ConvIdle /\ FetchIdle /\ RunIdle
    /\ \/ dirExists = TRUE /\ listing \in Listings
       \/ dirExists = FALSE /\ listing = <<>>
    /\ archiveOut = <<>>
    /\ apc = "call"

BuildArchiveListItems ==
    /\ apc = "call" /\ vertical = "news"
    /\ archiveOut' = build_archive_list_items(dirExists, listing)
    /\ apc' = "returned"
    /\ UNCHANGED <<vertical, normVars, dateVars, dirExists, listing, pageVars, convVars, fetchVars, runVars>>

BuildGamingArchiveListHtml ==
    /\ apc = "call" /\ vertical = "gaming"
    /\ archiveOut' = build_gaming_archive_list_html(dirExists, listing)
    /\ apc' = "returned"
    /\ UNCHANGED <<vertical, normVars, dateVars, dirExists, listing, pageVars, convVars, fetchVars, runVars>>

NextArchive == BuildArchiveListItems \/ BuildGamingArchiveListHtml
SpecArchive == InitArchive /\ [][NextArchive]_vars

\* --- properties of the archive index --------------------------------------
\* the <li> lines of the built index
ArchiveLines == IF vertical = "news" THEN archiveOut ELSE SplitOn(archiveOut, "\n")
\* the line the index is to show for a file of the pool
ExpectedDisplay(f) == IF f.key > 0 THEN f.display ELSE PySliceTo(f.name, Len(f.name) - 5)
ExpectedLi(f) ==
    (IF vertical = "news" THEN <<"<", "l", "i", ">", "<", "a", " ", "h", "r", "e", "f", "=", "\"", "a", "r", "c", "h", "i", "v", "e", "s", "/">> ELSE <<"<", "l", "i", ">", "<", "a", " ", "h", "r", "e", "f", "=", "\"", "g", "a", "m", "i", "n", "g", "_", "a", "r", "c", "h", "i", "v", "e", "s", "/">>)
        \o f.name \o <<"\"", ">">> \o ExpectedDisplay(f) \o <<"<", "/", "a", ">", "<", "/", "l", "i", ">">>
Bijections(n) == { f \in [1..n -> 1..n] : \A i, j \in 1..n : f[i] = f[j] => i = j }
AllCanonical == \A i \in 1..Len(listing) : FileOf(listing[i]).canonical

\* C9: when every file of the archive directory is named by a zero-padded
\* YYYY-MM-DD date, the rebuilt index has exactly one link per file and the
\* links are in strictly descending date order, whatever the listing order.
C9_ArchiveDescending ==
    (apc = "returned" /\ dirExists /\ listing # <<>> /\ AllCanonical) =>
        /\ Len(ArchiveLines) = Len(listing)
        /\ \E f \in Bijections(Len(listing)) :
              /\ \A k \in 1..Len(listing) : ArchiveLines[k] = ExpectedLi(FileOf(listing[f[k]]))
              /\ \A k \in 1..(Len(listing) - 1) :
                    FileOf(listing[f[k]]).key > FileOf(listing[f[k + 1]]).key

C9_Witness ==
    /\ apc = "returned" /\ vertical = "news"
    /\ listing = <<<<"2", "0", "2", "4", "-", "0", "1", "-", "0", "2", ".", "h", "t", "m", "l">>, <<"2", "0", "2", "4", "-", "0", "1", "-", "1", "0", ".", "h", "t", "m", "l">>, <<"2", "0", "2", "4", "-", "0", "1", "-", "0", "1", ".", "h", "t", "m", "l">>>>
    /\ archiveOut = <<<<"<", "l", "i", ">", "<", "a", " ", "h", "r", "e", "f", "=", "\"", "a", "r", "c", "h", "i", "v", "e", "s", "/", "2", "0", "2", "4", "-", "0", "1", "-", "1", "0", ".", "h", "t", "m", "l", "\"", ">", "J", "a", "n", "u", "a", "r", "y", " ", "1", "0", ",", " ", "2", "0", "2", "4", "<", "/", "a", ">", "<", "/", "l", "i", ">">>,
                      <<"<", "l", "i", ">", "<", "a", " ", "h", "r", "e", "f", "=", "\"", "a", "r", "c", "h", "i", "v", "e", "s", "/", "2", "0", "2", "4", "-", "0", "1", "-", "0", "2", ".", "h", "t", "m", "l", "\"", ">", "J", "a", "n", "u", "a", "r", "y", " ", "0", "2", ",", " ", "2", "0", "2", "4", "<", "/", "a", ">", "<", "/", "l", "i", ">">>,
                      <<"<", "l", "i", ">", "<", "a", " ", "h", "r", "e", "f", "=", "\"", "a", "r", "c", "h", "i", "v", "e", "s", "/", "2", "0", "2", "4", "-", "0", "1", "-", "0", "1", ".", "h", "t", "m", "l", "\"", ">", "J", "a", "n", "u", "a", "r", "y", " ", "0", "1", ",", " ", "2", "0", "2", "4", "<", "/", "a", ">", "<", "/", "l", "i", ">">>>>

C9_WitnessGaming ==
    /\ apc = "returned" /\ vertical = "gaming"
    /\ listing = <<<<"2", "0", "2", "4", "-", "0", "1", "-", "0", "2", ".", "h", "t", "m", "l">>, <<"2", "0", "2", "4", "-", "0", "1", "-", "1", "0", ".", "h", "t", "m", "l">>, <<"2", "0", "2", "4", "-", "0", "1", "-", "0", "1", ".", "h", "t", "m", "l">>>>
    /\ SplitOn(archiveOut, "\n")[1] = <<"<", "l", "i", ">", "<", "a", " ", "h", "r", "e", "f", "=", "\"", "g", "a", "m", "i", "n", "g", "_", "a", "r", "c", "h", "i", "v", "e", "s", "/", "2", "0", "2", "4", "-", "0", "1", "-", "1", "0", ".", "h", "t", "m", "l", "\"", ">", "J", "a", "n", "u", "a", "r", "y", " ", "1", "0", ",", " ", "2", "0", "2", "4", "<", "/", "a", ">", "<", "/", "l", "i", ">">>
    /\ SplitOn(archiveOut, "\n")[3] = <<"<", "l", "i", ">", "<", "a", " ", "h", "r", "e", "f", "=", "\"", "g", "a", "m", "i", "n", "g", "_", "a", "r", "c", "h", "i", "v", "e", "s", "/", "2", "0", "2", "4", "-", "0", "1", "-", "0", "1", ".", "h", "t", "m", "l", "\"", ">", "J", "a", "n", "u", "a", "r", "y", " ", "0", "1", ",", " ", "2", "0", "2", "4", "<", "/", "a", ">", "<", "/", "l", "i", ">">>

\* the files the index of a vertical lists: in news those ending in .html
\* whose slug strptime takes as %Y-%m-%d, in gaming all those ending in .html
ListedFiles ==
    { i \in 1..Len(listing) :
        FileOf(listing[i]).html /\ (vertical = "news" => FileOf(listing[i]).key > 0) }

\* C10 (as amended): in news, a file that does not end in .html or whose slug
\* strptime does not take as %Y-%m-%d (one-digit months and days are taken)
\* produces no entry; in gaming every file ending in .html produces an entry,
\* a slug that is no date being shown as it is; no file name makes either
\* rebuild fail, and with nothing to list news returns no item and gaming
\* the placeholder line.
C10_IndexEntries ==
    (apc = "returned" /\ dirExists) =>
        IF ListedFiles = {}
        THEN archiveOut = (IF vertical = "news" THEN <<>> ELSE GamingEmptyLi)
        ELSE /\ Len(ArchiveLines) = Cardinality(ListedFiles)
             /\ \A i \in ListedFiles :
                   \E k \in 1..Len(ArchiveLines) : ArchiveLines[k] = ExpectedLi(FileOf(listing[i]))

C10_Witness ==
    /\ apc = "returned" /\ vertical = "gaming"
    /\ listing = <<<<"n", "o", "t", "e", "s", ".", "h", "t", "m", "l">>, <<"2", "0", "2", "4", "-", "0", "1", "-", "0", "3", ".", "j", "s", "o", "n">>, <<"2", "0", "2", "4", "-", "0", "1", "-", "0", "2", ".", "h", "t", "m", "l">>>>
    /\ archiveOut = <<"<", "l", "i", ">", "<", "a", " ", "h", "r", "e", "f", "=", "\"", "g", "a", "m", "i", "n", "g", "_", "a", "r", "c", "h", "i", "v", "e", "s", "/", "n", "o", "t", "e", "s", ".", "h", "t", "m", "l", "\"", ">", "n", "o", "t", "e", "s", "<", "/", "a", ">", "<", "/", "l", "i", ">", "\n", "<", "l", "i", ">", "<", "a", " ", "h", "r", "e", "f", "=", "\"", "g", "a", "m", "i", "n", "g", "_", "a", "r", "c", "h", "i", "v", "e", "s", "/", "2", "0", "2", "4", "-", "0", "1", "-", "0", "2", ".", "h", "t", "m", "l", "\"", ">", "J", "a", "n", "u", "a", "r", "y", " ", "0", "2", ",", " ", "2", "0", "2", "4", "<", "/", "a", ">", "<", "/", "l", "i", ">">>

C10_WitnessNews ==
    /\ apc = "returned" /\ vertical = "news"
    /\ listing = <<<<"n", "o", "t", "e", "s", ".", "h", "t", "m", "l">>, <<"2", "0", "2", "4", "-", "0", "2", "-", "3", "0", ".", "h", "t", "m", "l">>, <<"2", "0", "2", "4", "-", "0", "1", "-", "0", "2", ".", "h", "t", "m", "l">>>>
    /\ archiveOut = <<<<"<", "l", "i", ">", "<", "a", " ", "h", "r", "e", "f", "=", "\"", "a", "r", "c", "h", "i", "v", "e", "s", "/", "2", "0", "2", "4", "-", "0", "1", "-", "0", "2", ".", "h", "t", "m", "l", "\"", ">", "J", "a", "n", "u", "a", "r", "y", " ", "0", "2", ",", " ", "2", "0", "2", "4", "<", "/", "a", ">", "<", "/", "l", "i", ">">>>>

\* C10 (as stated): a file whose name is not a date slug followed by .html
\* has no entry in the rebuilt index.
C10_Original ==
    apc = "returned" =>
        \A i \in 1..Len(listing) :
            (~FileOf(listing[i]).html \/ FileOf(listing[i]).key = 0) =>
                \A k \in 1..Len(ArchiveLines) :
                    ~Contains(ArchiveLines[k], <<"/">> \o listing[i] \o <<"\"">>)

\* ------------------------------------------------------------------------
\* PageMutator
\* ------------------------------------------------------------------------
\* A timestamp (datetime.now().isoformat(), or today's "%B %d, %Y") is one
\* element of the text: whatever its characters are, none of them is '<' or
\* '>' and it holds no '="', so no search of the code can match inside it.
Instants == {"t1", "t2"}

Wrote(html) == [error |-> FALSE, written |-> TRUE, html |-> html]
RuntimeError == [error |-> TRUE, written |-> FALSE, html |-> <<>>]
Skipped == [error |-> FALSE, written |-> FALSE, html |-> <<>>]

\* before = html[: start_tag_end + 1]; after = html[end:]; before + inner + after
Mut_Splice(html, start_tag_end, end, inner) ==
    PySliceTo(html, start_tag_end) \o inner \o PySliceFrom(html, end)
Splice(html, start_tag_end, end, inner) ==
    PySliceTo(html, start_tag_end + 1) \o inner \o PySliceFrom(html, end)

\* --- news_generator.update_index_html
Mut_NewsArticleInner(article_html, ts) ==
    <<"\n", "<", "p", " ", "c", "l", "a", "s", "s", "=", "\"", "a", "r", "t", "i", "c", "l", "e", "-", "d", "a", "t", "e", "\"", ">", "U", "p", "d", "a", "t", "e", "d", ":", " ", "<", "s", "p", "a", "n", " ", "i", "d", "=", "\"", "u", "p", "d", "a", "t", "e", "d", "-", "d", "a", "t", "e", "\"", " ", "d", "a", "t", "a", "-", "t", "s", "=", "\"">> \o <<ts>>
        \o <<"\"", ">", "<", "/", "s", "p", "a", "n", ">", "<", "/", "p", ">", "\n">> \o article_html \o <<"\n", "<", "/", "d", "i", "v", ">">>
NewsArticleInner(article_html, ts) ==
    <<"\n", "<", "p", " ", "c", "l", "a", "s", "s", "=", "\"", "a", "r", "t", "i", "c", "l", "e", "-", "d", "a", "t", "e", "\"", ">", "U", "p", "d", "a", "t", "e", "d", ":", " ", "<", "s", "p", "a", "n", " ", "i", "d", "=", "\"", "u", "p", "d", "a", "t", "e", "d", "-", "d", "a", "t", "e", "\"", " ", "d", "a", "t", "a", "-", "t", "s", "=", "\"">> \o <<ts>>
        \o <<"\"", ">", "<", "/", "s", "p", "a", "n", ">", "<", "/", "p", ">", "\n">> \o article_html \o <<"\n">>
NewsArticleBlock(article_html, ts) ==
    <<"\n", "<", "d", "i", "v", " ", "i", "d", "=", "\"", "a", "r", "t", "i", "c", "l", "e", "\"", ">", "\n", " ", " ", "<", "p", " ", "c", "l", "a", "s", "s", "=", "\"", "a", "r", "t", "i", "c", "l", "e", "-", "d", "a", "t", "e", "\"", ">", "U", "p", "d", "a", "t", "e", "d", ":", " ", "<", "s", "p", "a", "n", " ", "i", "d", "=", "\"", "u", "p", "d", "a", "t", "e", "d", "-", "d", "a", "t", "e", "\"", " ", "d", "a", "t", "a", "-", "t", "s", "=", "\"">> \o <<ts>>
        \o <<"\"", ">", "<", "/", "s", "p", "a", "n", ">", "<", "/", "p", ">", "\n", " ", " ">> \o article_html \o <<"\n", "<", "/", "d", "i", "v", ">", "\n">>

UpdateIndexRegion(html, start_tag_end, inner) ==
    IF PyFind(html, <<"<", "/", "d", "i", "v", ">">>, start_tag_end) = -1 THEN RuntimeError
    ELSE Wrote(Splice(html, start_tag_end, PyFind(html, <<"<", "/", "d", "i", "v", ">">>, start_tag_end), inner))
UpdateIndexTag(html, start, inner) ==
    IF start = -1 THEN RuntimeError
    ELSE IF PyFind(html, <<">">>, start) = -1 THEN RuntimeError
    ELSE UpdateIndexRegion(html, PyFind(html, <<">">>, start), inner)
UpdateIndexInject(html, body_close, article_block) ==
    IF body_close # -1
    THEN Wrote(PySliceTo(html, body_close) \o article_block \o PySliceFrom(html, body_close))
    ELSE Wrote(html \o article_block)
update_index_html(html, article_html, ts) ==
    IF PyFind(html, <<"i", "d", "=", "\"", "a", "r", "t", "i", "c", "l", "e", "\"">>, 0) # -1
    THEN UpdateIndexTag(html, PyRFind(html, <<"<", "d", "i", "v">>, 0, PyFind(html, <<"i", "d", "=", "\"", "a", "r", "t", "i", "c", "l", "e", "\"">>, 0)),
                        NewsArticleInner(article_html, ts))
    ELSE UpdateIndexInject(html, PyRFind(Lower(html), <<"<", "/", "b", "o", "d", "y", ">">>, 0, Len(html)),
                           NewsArticleBlock(article_html, ts))

\* --- tech_generator.update_tech_page
TechArticleInner(summary_html, today) ==
    <<"\n", "<", "p", " ", "c", "l", "a", "s", "s", "=", "\"", "a", "r", "t", "i", "c", "l", "e", "-", "d", "a", "t", "e", "\"", ">", "U", "p", "d", "a", "t", "e", "d", ":", " ">> \o <<today>> \o <<"<", "/", "p", ">", "\n">> \o summary_html \o <<"\n">>
UpdateTechRegion(html, start_tag_end, inner) ==
    Wrote(Splice(html, start_tag_end, PyFind(html, <<"<", "/", "d", "i", "v", ">">>, start_tag_end), inner))
Mut_update_tech_page(html, summary_html, today) ==
    UpdateTechRegion(html, PyFind(html, <<">">>, PyFind(html, <<"<", "d", "i", "v", " ", "i", "d", "=", "\"", "a", "r", "t", "i", "c", "l", "e", "\"", ">">>, 0)),
                     TechArticleInner(summary_html, today))
update_tech_page(html, summary_html, today) ==
    IF PyFind(html, <<"<", "d", "i", "v", " ", "i", "d", "=", "\"", "a", "r", "t", "i", "c", "l", "e", "\"", ">">>, 0) = -1 THEN RuntimeError
    ELSE UpdateTechRegion(html, PyFind(html, <<">">>, PyFind(html, <<"<", "d", "i", "v", " ", "i", "d", "=", "\"", "a", "r", "t", "i", "c", "l", "e", "\"", ">">>, 0)),
                          TechArticleInner(summary_html, today))

\* --- gaming_generator.update_gaming_page
GamingArticleInner(summary_html, display_date) ==
    <<"\n", "<", "p", " ", "c", "l", "a", "s", "s", "=", "\"", "a", "r", "t", "i", "c", "l", "e", "-", "d", "a", "t", "e", "\"", ">", "U", "p", "d", "a", "t", "e", "d", ":", " ">> \o <<display_date>> \o <<"<", "/", "p", ">", "\n">> \o summary_html \o <<"\n">>
UpdateGamingRegion(html, start_tag_end, inner) ==
    Wrote(Splice(html, start_tag_end, PyFind(html, <<"<", "/", "d", "i", "v", ">">>, start_tag_end), inner))
update_gaming_page(html, summary_html, display_date) ==
    IF PyFind(html, <<"<", "d", "i", "v", " ", "i", "d", "=", "\"", "a", "r", "t", "i", "c", "l", "e", "\"", ">">>, 0) = -1 THEN RuntimeError
    ELSE UpdateGamingRegion(html, PyFind(html, <<">">>, PyFind(html, <<"<", "d", "i", "v", " ", "i", "d", "=", "\"", "a", "r", "t", "i", "c", "l", "e", "\"", ">">>, 0)),
                            GamingArticleInner(summary_html, display_date))

\* --- news_generator.update_archive_list_on_index
NewsArchiveInner(list_items) ==
    IF list_items = <<>> THEN <<"\n", "<", "l", "i", " ", "c", "l", "a", "s", "s", "=", "\"", "a", "r", "c", "h", "i", "v", "e", "-", "e", "m", "p", "t", "y", "\"", ">", "N", "o", " ", "a", "r", "c", "h", "i", "v", "e", "s", " ", "y", "e", "t", ".", "<", "/", "l", "i", ">", "\n">>
    ELSE <<"\n">> \o Join(<<"\n">>, list_items) \o <<"\n">>
UpdateArchiveRegion(html, start_tag_end, inner) ==
    IF PyFind(html, <<"<", "/", "u", "l", ">">>, start_tag_end) = -1 THEN Skipped
    ELSE Wrote(Splice(html, start_tag_end, PyFind(html, <<"<", "/", "u", "l", ">">>, start_tag_end), inner))
UpdateArchiveTag(html, start, inner) ==
    IF start = -1 THEN Skipped
    ELSE IF PyFind(html, <<">">>, start) = -1 THEN Skipped
    ELSE UpdateArchiveRegion(html, PyFind(html, <<">">>, start), inner)
update_archive_list_on_index(html, isdir, l) ==
    IF PyFind(html, <<"i", "d", "=", "\"", "a", "r", "c", "h", "i", "v", "e", "-", "l", "i", "s", "t", "\"">>, 0) = -1 THEN Skipped
    ELSE UpdateArchiveTag(html, PyRFind(html, <<"<", "u", "l">>, 0, PyFind(html, <<"i", "d", "=", "\"", "a", "r", "c", "h", "i", "v", "e", "-", "l", "i", "s", "t", "\"">>, 0)),
                          NewsArchiveInner(build_archive_list_items(isdir, l)))

\* --- gaming_generator.update_gaming_archive_list_on_page
GamingArchiveInner(list_html) == <<"\n">> \o list_html \o <<"\n">>
UpdateGamingArchiveRegion(html, start_tag_end, inner) ==
    Wrote(Splice(html, start_tag_end, PyFind(html, <<"<", "/", "u", "l", ">">>, start_tag_end), inner))
update_gaming_archive_list_on_page(html, isdir, l) ==
    IF PyFind(html, <<"<", "u", "l", " ", "i", "d", "=", "\"", "g", "a", "m", "i", "n", "g", "-", "a", "r", "c", "h", "i", "v", "e", "-", "l", "i", "s", "t", "\"", ">">>, 0) = -1 THEN RuntimeError
    ELSE UpdateGamingArchiveRegion(html,
             PyFind(html, <<">">>, PyFind(html, <<"<", "u", "l", " ", "i", "d", "=", "\"", "g", "a", "m", "i", "n", "g", "-", "a", "r", "c", "h", "i", "v", "e", "-", "l", "i", "s", "t", "\"", ">">>, 0)),
             GamingArchiveInner(build_gaming_archive_list_html(isdir, l)))

\* --- the pages and contents tried
\* A page is up to MaxChunks pieces of markup and text put end to end.
NewsArticleChunks == { <<"<", "d", "i", "v">>, <<" ", "i", "d", "=", "\"", "a", "r", "t", "i", "c", "l", "e", "\"">>, <<">">>, <<"<", "/", "d", "i", "v", ">">>, <<"<", "d", "i", "v", " ", "i", "d", "=", "\"", "a", "r", "t", "i", "c", "l", "e", "\"", ">">>, <<"o">>, <<"<", "/", "b", "o", "d", "y", ">">> }
TechArticleChunks == { <<"<", "d", "i", "v", " ", "i", "d", "=", "\"", "a", "r", "t", "i", "c", "l", "e", "\"", ">">>, <<"<", "/", "d", "i", "v", ">">>, <<"o">>, <<" ", "i", "d", "=", "\"", "a", "r", "t", "i", "c", "l", "e", "\"">> }
NewsArchiveChunks == { <<"<", "u", "l">>, <<" ", "i", "d", "=", "\"", "a", "r", "c", "h", "i", "v", "e", "-", "l", "i", "s", "t", "\"">>, <<">">>, <<"<", "/", "u", "l", ">">>, <<"o">> }
GamingArchiveChunks == { <<"<", "u", "l", " ", "i", "d", "=", "\"", "g", "a", "m", "i", "n", "g", "-", "a", "r", "c", "h", "i", "v", "e", "-", "l", "i", "s", "t", "\"", ">">>, <<"<", "/", "u", "l", ">">>, <<"o">>, <<" ", "i", "d", "=", "\"", "g", "a", "m", "i", "n", "g", "-", "a", "r", "c", "h", "i", "v", "e", "-", "l", "i", "s", "t", "\"">> }

RECURSIVE Concat(_)
Concat(parts) == IF parts = <<>> THEN <<>> ELSE parts[1] \o Concat(Tail(parts))
PagesOf(chunks) == UNION { { Concat(c) : c \in [1..n -> chunks] } : n \in 0..MaxChunks }

ArticleChunksOf(v) == IF v = "news" THEN NewsArticleChunks ELSE TechArticleChunks
ArchiveChunksOf(v) == IF v = "news" THEN NewsArchiveChunks ELSE GamingArchiveChunks

\* contents the converter can emit: a paragraph, and paragraphs whose text
\* holds the region's closing tag or its start anchor
Contents == { <<"<", "p", ">", "n", "<", "/", "p", ">", "\n">>, <<"<", "p", ">", "<", "/", "d", "i", "v", ">", "<", "/", "p", ">", "\n">>, <<"<", "p", ">", "<", "d", "i", "v", " ", "i", "d", "=", "\"", "a", "r", "t", "i", "c", "l", "e", "\"", ">", "<", "/", "p", ">", "\n">> }
PageListings == { <<>>, <<<<"2", "0", "2", "4", "-", "0", "1", "-", "0", "2", ".", "h", "t", "m", "l">>>>, <<<<"2", "0", "2", "4", "-", "0", "1", "-", "0", "2", ".", "h", "t", "m", "l">>, <<"2", "0", "2", "4", "-", "0", "1", "-", "1", "0", ".", "h", "t", "m", "l">>>> }

InitPage ==
    /\ NormIdle /\ DateIdle /\ ConvIdle /\ FetchIdle /\ RunIdle
    /\ archiveOut = <<>> /\ apc = "idle"
    /\ \/ /\ pageKind = "article"
          /\ vertical \in Verticals
          /\ file \in PagesOf(ArticleChunksOf(vertical))
          /\ content \in Contents
          /\ dirExists = FALSE /\ listing = <<>>
       \/ /\ pageKind = "archive"
          /\ vertical \in {"news", "gaming"}
          /\ file \in PagesOf(ArchiveChunksOf(vertical))
          /\ content = <<>>
          /\ \/ dirExists = TRUE /\ listing \in PageListings
             \/ dirExists = FALSE /\ listing = <<>>
    /\ ppc = "start"
    /\ lastOp = NoOp
    /\ file0 = file /\ fileBefore = file

\* a mutation ran: the file is rewritten only when the function reached its write
Mutated(op, r, ts) ==
    /\ file' = IF r.written THEN r.html ELSE file
    /\ fileBefore' = file
    /\ lastOp' = [op |-> op, error |-> r.error, written |-> r.written, ts |-> ts]
    /\ ppc' = IF ppc = "start" THEN "once" ELSE "twice"
    /\ UNCHANGED <<vertical, normVars, dateVars, archVars, content, pageKind, file0, convVars, fetchVars, runVars>>

UpdateIndexHtml ==
    /\ ppc \in {"start", "once"} /\ pageKind = "article" /\ vertical = "news"
    /\ \E ts \in Instants : Mutated("update_index_html", update_index_html(file, content, ts), ts)

UpdateTechPage ==
    /\ ppc \in {"start", "once"} /\ pageKind = "article" /\ vertical = "tech"
    /\ \E today \in Instants : Mutated("update_tech_page", update_tech_page(file, content, today), today)

UpdateGamingPage ==
    /\ ppc \in {"start", "once"} /\ pageKind = "article" /\ vertical = "gaming"
    /\ \E today \in Instants : Mutated("update_gaming_page", update_gaming_page(file, content, today), today)

UpdateArchiveListOnIndex ==
    /\ ppc \in {"start", "once"} /\ pageKind = "archive" /\ vertical = "news"
    /\ Mutated("update_archive_list_on_index", update_archive_list_on_index(file, dirExists, listing), "none")

UpdateGamingArchiveListOnPage ==
    /\ ppc \in {"start", "once"} /\ pageKind = "archive" /\ vertical = "gaming"
    /\ Mutated("update_gaming_archive_list_on_page",
               update_gaming_archive_list_on_page(file, dirExists, listing), "none")

NextPage ==
    \/ UpdateIndexHtml \/ UpdateTechPage \/ UpdateGamingPage
    \/ UpdateArchiveListOnIndex \/ UpdateGamingArchiveListOnPage
SpecPage == InitPage /\ [][NextPage]_vars

\* --- properties of the page mutator ---------------------------------------
\* sub occurs in doc at the 0-based position i
OccursAt(doc, sub, i) == i + Len(sub) <= Len(doc) /\ SubSeq(doc, i + 1, i + Len(sub)) = sub
FirstAt(doc, sub, i) == OccursAt(doc, sub, i) /\ \A k \in 0..(i - 1) : ~OccursAt(doc, sub, k)
Positions(doc) == 0..Len(doc)

\* the anchor of the last mutation, its opening tag and its closing tag
AnchorOf(op) ==
    IF op = "update_index_html" THEN <<"i", "d", "=", "\"", "a", "r", "t", "i", "c", "l", "e", "\"">>
    ELSE IF op = "update_archive_list_on_index" THEN <<"i", "d", "=", "\"", "a", "r", "c", "h", "i", "v", "e", "-", "l", "i", "s", "t", "\"">>
    ELSE IF op = "update_gaming_archive_list_on_page" THEN <<"<", "u", "l", " ", "i", "d", "=", "\"", "g", "a", "m", "i", "n", "g", "-", "a", "r", "c", "h", "i", "v", "e", "-", "l", "i", "s", "t", "\"", ">">>
    ELSE <<"<", "d", "i", "v", " ", "i", "d", "=", "\"", "a", "r", "t", "i", "c", "l", "e", "\"", ">">>
OpenTagOf(op) ==
    IF op = "update_index_html" THEN <<"<", "d", "i", "v">>
    ELSE IF op = "update_archive_list_on_index" THEN <<"<", "u", "l">>
    ELSE AnchorOf(op)
ClosingTagOf(op) ==
    IF op \in {"update_archive_list_on_index", "update_gaming_archive_list_on_page"}
    THEN <<"<", "/", "u", "l", ">">> ELSE <<"<", "/", "d", "i", "v", ">">>
SearchesBackward(op) == op \in {"update_index_html", "update_archive_list_on_index"}

\* s is where the start tag of the region begins, a being the first anchor:
\* the anchor itself, or (news) the last opening tag that ends before it
IsStartTag(doc, op, a, s) ==
    IF SearchesBackward(op)
    THEN /\ OccursAt(doc, OpenTagOf(op), s) /\ s + Len(OpenTagOf(op)) <= a
         /\ \A k \in (s + 1)..(a - Len(OpenTagOf(op))) : ~OccursAt(doc, OpenTagOf(op), k)
    ELSE s = a
\* e is the first '>' from s on
IsTagEnd(doc, s, e) ==
    e >= s /\ OccursAt(doc, <<">">>, e) /\ \A k \in s..(e - 1) : ~OccursAt(doc, <<">">>, k)
\* c is the first closing tag from e on
IsClosing(doc, op, e, c) ==
    c >= e /\ OccursAt(doc, ClosingTagOf(op), c)
        /\ \A k \in e..(c - 1) : ~OccursAt(doc, ClosingTagOf(op), k)
HasClosing(doc, op, e) == \E c \in Positions(doc) : c >= e /\ OccursAt(doc, ClosingTagOf(op), c)

\* the inner content the last mutation was to put into the region
InnerOf(op) ==
    IF op = "update_index_html" THEN NewsArticleInner(content, lastOp.ts)
    ELSE IF op = "update_tech_page" THEN TechArticleInner(content, lastOp.ts)
    ELSE IF op = "update_gaming_page" THEN GamingArticleInner(content, lastOp.ts)
    ELSE IF op = "update_archive_list_on_index"
    THEN NewsArchiveInner(build_archive_list_items(dirExists, listing))
    ELSE GamingArchiveInner(build_gaming_archive_list_html(dirExists, listing))

\* C4: when the page holds the start anchor and a closing tag after the start
\* tag, the mutation writes the page: the old text up to and including the
\* start tag's '>', then the new inner content, then the old text from the
\* first closing tag after the start tag to the end.
C4_RegionReplaced ==
    ppc \in {"once", "twice"} =>
        \A a \in Positions(fileBefore) : FirstAt(fileBefore, AnchorOf(lastOp.op), a) =>
            \A s \in 0..a : IsStartTag(fileBefore, lastOp.op, a, s) =>
                \A e \in Positions(fileBefore) : IsTagEnd(fileBefore, s, e) =>
                    \A c \in Positions(fileBefore) : IsClosing(fileBefore, lastOp.op, e, c) =>
                        /\ lastOp.written /\ ~lastOp.error
                        /\ file = SubSeq(fileBefore, 1, e + 1) \o InnerOf(lastOp.op)
                                    \o SubSeq(fileBefore, c + 1, Len(fileBefore))

C4_Witness ==
    /\ ppc = "once" /\ lastOp.op = "update_index_html" /\ lastOp.written
    /\ fileBefore = <<"<", "d", "i", "v", " ", "i", "d", "=", "\"", "a", "r", "t", "i", "c", "l", "e", "\"", ">", "o", "<", "/", "d", "i", "v", ">", "<", "/", "b", "o", "d", "y", ">">>
    /\ content = <<"<", "p", ">", "n", "<", "/", "p", ">", "\n">>
    /\ file = <<"<", "d", "i", "v", " ", "i", "d", "=", "\"", "a", "r", "t", "i", "c", "l", "e", "\"", ">", "\n", "<", "p", " ", "c", "l", "a", "s", "s", "=", "\"", "a", "r", "t", "i", "c", "l", "e", "-", "d", "a", "t", "e", "\"", ">", "U", "p", "d", "a", "t", "e", "d", ":", " ", "<", "s", "p", "a", "n", " ", "i", "d", "=", "\"", "u", "p", "d", "a", "t", "e", "d", "-", "d", "a", "t", "e", "\"", " ", "d", "a", "t", "a", "-", "t", "s", "=", "\"">>
                \o <<lastOp.ts>> \o <<"\"", ">", "<", "/", "s", "p", "a", "n", ">", "<", "/", "p", ">", "\n", "<", "p", ">", "n", "<", "/", "p", ">", "\n", "\n", "<", "/", "d", "i", "v", ">", "<", "/", "b", "o", "d", "y", ">">>

C4_WitnessArchive ==
    /\ ppc = "once" /\ lastOp.op = "update_gaming_archive_list_on_page" /\ lastOp.written
    /\ fileBefore = <<"o", "<", "u", "l", " ", "i", "d", "=", "\"", "g", "a", "m", "i", "n", "g", "-", "a", "r", "c", "h", "i", "v", "e", "-", "l", "i", "s", "t", "\"", ">", "o", "<", "/", "u", "l", ">">>
    /\ listing = <<<<"2", "0", "2", "4", "-", "0", "1", "-", "0", "2", ".", "h", "t", "m", "l">>>>
    /\ file = <<"o", "<", "u", "l", " ", "i", "d", "=", "\"", "g", "a", "m", "i", "n", "g", "-", "a", "r", "c", "h", "i", "v", "e", "-", "l", "i", "s", "t", "\"", ">", "\n", "<", "l", "i", ">", "<", "a", " ", "h", "r", "e", "f", "=", "\"", "g", "a", "m", "i", "n", "g", "_", "a", "r", "c", "h", "i", "v", "e", "s", "/", "2", "0", "2", "4", "-", "0", "1", "-", "0", "2", ".", "h", "t", "m", "l", "\"", ">", "J", "a", "n", "u", "a", "r", "y", " ", "0", "2", ",", " ", "2", "0", "2", "4", "<", "/", "a", ">", "<", "/", "l", "i", ">", "\n", "<", "/", "u", "l", ">">>

\* the text with every timestamp replaced by one mark
Blank(doc) == [i \in 1..Len(doc) |-> IF doc[i] \in Instants THEN "t" ELSE doc[i]]

\* (news) the first id="article" lies inside the opening <div ...> tag the
\* mutation locates, as in <div id="article">
MarkerInStartTag(doc) ==
    \E a \in Positions(doc) : FirstAt(doc, <<"i", "d", "=", "\"", "a", "r", "t", "i", "c", "l", "e", "\"">>, a) /\
        \E s \in 0..a : IsStartTag(doc, "update_index_html", a, s) /\
            \E e \in Positions(doc) : IsTagEnd(doc, s, e) /\ a < e

\* C5 (as amended): for content that does not hold the closing tag </div>,
\* applying the main-page mutation a second time with the same content leaves
\* the page as the first application left it, timestamps aside: in tech and
\* gaming from every starting page, in news from every starting page whose
\* first id="article" lies inside the opening <div ...> tag.
C5_Idempotent ==
    (/\ ppc = "twice" /\ pageKind = "article"
     /\ ~Contains(content, <<"<", "/", "d", "i", "v", ">">>)
     /\ (vertical = "news" => MarkerInStartTag(file0)))
        => Blank(file) = Blank(fileBefore)

C5_Witness ==
    /\ ppc = "twice" /\ lastOp.op = "update_index_html" /\ lastOp.written
    /\ file0 = <<"<", "d", "i", "v", " ", "i", "d", "=", "\"", "a", "r", "t", "i", "c", "l", "e", "\"", ">", "o", "<", "/", "d", "i", "v", ">">>
    /\ content = <<"<", "p", ">", "n", "<", "/", "p", ">", "\n">>
    /\ file # fileBefore /\ file # file0
    /\ Blank(file) = Blank(fileBefore)

\* C5 (as stated): twice is once, from any page and for any content.
C5_Original ==
    (ppc = "twice" /\ pageKind = "article") => Blank(file) = Blank(fileBefore)

\* the page with the block put in before position k
Injected(doc, k, block) == SubSeq(doc, 1, k) \o block \o SubSeq(doc, k + 1, Len(doc))
IsLastBodyClose(doc, k) ==
    /\ OccursAt(Lower(doc), <<"<", "/", "b", "o", "d", "y", ">">>, k)
    /\ \A j \in (k + 1)..Len(doc) : ~OccursAt(Lower(doc), <<"<", "/", "b", "o", "d", "y", ">">>, j)
HasBodyClose(doc) == \E k \in Positions(doc) : OccursAt(Lower(doc), <<"<", "/", "b", "o", "d", "y", ">">>, k)

\* C6 (as amended): when the page holds no id="article", the main-page
\* mutation of tech and gaming ends in a RuntimeError and leaves the file as
\* it was; the one of news raises nothing and writes the page with a new
\* <div id="article"> block put in before the last </body>, or at the end of
\* a page without </body>, the rest of the text unchanged.
C6_MissingAnchor ==
    (ppc \in {"once", "twice"} /\ pageKind = "article" /\ ~Contains(fileBefore, <<"i", "d", "=", "\"", "a", "r", "t", "i", "c", "l", "e", "\"">>)) =>
        IF vertical = "news"
        THEN /\ ~lastOp.error /\ lastOp.written
             /\ \A k \in Positions(fileBefore) : IsLastBodyClose(fileBefore, k) =>
                    file = Injected(fileBefore, k, NewsArticleBlock(content, lastOp.ts))
             /\ ~HasBodyClose(fileBefore) =>
                    file = fileBefore \o NewsArticleBlock(content, lastOp.ts)
        ELSE lastOp.error /\ ~lastOp.written /\ file = fileBefore

C6_Witness ==
    /\ ppc = "once" /\ lastOp.op = "update_tech_page"
    /\ fileBefore = <<"o", "<", "/", "d", "i", "v", ">", "o">>
    /\ lastOp.error /\ file = fileBefore

C6_WitnessNews ==
    /\ ppc = "once" /\ lastOp.op = "update_index_html"
    /\ fileBefore = <<"<", "d", "i", "v", ">", "o", "<", "/", "b", "o", "d", "y", ">">>
    /\ lastOp.written
    /\ StartsWith(file, <<"<", "d", "i", "v", ">", "o", "\n", "<", "d", "i", "v", " ", "i", "d", "=", "\"", "a", "r", "t", "i", "c", "l", "e", "\"", ">", "\n", " ", " ", "<", "p">>)
    /\ EndsWith(file, <<"\n", "<", "/", "d", "i", "v", ">", "\n", "<", "/", "b", "o", "d", "y", ">">>)

\* C6 (as stated): no id="article" in the page: a configuration failure, and
\* the file as it was.
C6_Original ==
    (ppc \in {"once", "twice"} /\ pageKind = "article" /\ ~Contains(fileBefore, <<"i", "d", "=", "\"", "a", "r", "t", "i", "c", "l", "e", "\"">>)) =>
        lastOp.error /\ file = fileBefore

\* C7: when the start anchor is there but no closing tag comes after the
\* start tag, the mutation does not write the file.
C7_NoClosingTagNoWrite ==
    ppc \in {"once", "twice"} =>
        \A a \in Positions(fileBefore) : FirstAt(fileBefore, AnchorOf(lastOp.op), a) =>
            \A s \in 0..a : IsStartTag(fileBefore, lastOp.op, a, s) =>
                \A e \in Positions(fileBefore) :
                    (IsTagEnd(fileBefore, s, e) /\ ~HasClosing(fileBefore, lastOp.op, e)) =>
                        ~lastOp.written /\ file = fileBefore

\* ------------------------------------------------------------------------
\* SummaryGenerator: the summary-to-HTML conversion
\* ------------------------------------------------------------------------
\* s.count(sub): the occurrences found left to right without overlap
RECURSIVE Count(_, _)
Count(s, sub) ==
    IF PyFind(s, sub, 0) = -1 THEN 0
    ELSE 1 + Count(PySliceFrom(s, PyFind(s, sub, 0) + Len(sub)), sub)

Heading(title) == <<"<", "h", "2", ">">> \o title \o <<"<", "/", "h", "2", ">", "\n">>
Paragraph(text) == <<"<", "p", ">">> \o text \o <<"<", "/", "p", ">", "\n">>

\* text.lstrip("#").strip()
Mut_HashTitle(text) == Strip(text)
HashTitle(text) == Strip(LStripSet(text, {"#"}))
\* text.strip("*").strip()
BoldTitle(text) == Strip(StripSet(text, {"*"}))

\* news, main: the lines that start with "Updated:" are taken out first
NotUpdatedLine(line) == ~StartsWith(Strip(line), <<"U", "p", "d", "a", "t", "e", "d", ":">>)
StripUpdatedLines(s) == Join(<<"\n">>, SelectSeq(SplitOn(s, "\n"), NotUpdatedLine))

\* one round of the block loop of news and of tech
PlainBlockHtml(text) ==
    IF text = <<>> THEN <<>>
    ELSE IF StartsWith(text, <<"#", "#", "#">>) THEN Heading(HashTitle(text))
    ELSE Paragraph(text)
RECURSIVE PlainBlocksHtml(_)
PlainBlocksHtml(blocks) ==
    IF blocks = <<>> THEN <<>>
    ELSE PlainBlockHtml(Strip(Head(blocks))) \o PlainBlocksHtml(Tail(blocks))

main_summary_html(s) == PlainBlocksHtml(SplitOnStr(StripUpdatedLines(s), <<"\n", "\n">>))
convert_summary_to_html_tech(s) == PlainBlocksHtml(SplitOnStr(s, <<"\n", "\n">>))

GAME_KEYWORDS == <<
        <<"g", "a", "m", "e">>,
        <<"g", "a", "m", "i", "n", "g">>,
        <<"x", "b", "o", "x">>,
        <<"p", "l", "a", "y", "s", "t", "a", "t", "i", "o", "n">>,
        <<"p", "s", "5">>,
        <<"n", "i", "n", "t", "e", "n", "d", "o">>,
        <<"s", "w", "i", "t", "c", "h">>,
        <<"s", "t", "e", "a", "m">>,
        <<"p", "c", " ", "r", "e", "l", "e", "a", "s", "e">>,
        <<"d", "l", "c">>,
        <<"u", "p", "d", "a", "t", "e">>,
        <<"p", "a", "t", "c", "h">>,
        <<"l", "e", "a", "g", "u", "e", " ", "o", "f", " ", "l", "e", "g", "e", "n", "d", "s">>,
        <<"v", "a", "l", "o", "r", "a", "n", "t">>,
        <<"e", "s", "p", "o", "r", "t", "s">>,
        <<"t", "o", "u", "r", "n", "a", "m", "e", "n", "t">>,
        <<"b", "l", "i", "z", "z", "a", "r", "d">>,
        <<"a", "c", "t", "i", "v", "i", "s", "i", "o", "n">>,
        <<"b", "e", "t", "h", "e", "s", "d", "a">>,
        <<"u", "b", "i", "s", "o", "f", "t">>,
        <<"e", "p", "i", "c">>>>
AnyKeyword(lowered) == \E i \in 1..Len(GAME_KEYWORDS) : Contains(lowered, GAME_KEYWORDS[i])
LooksLikeHeader(text) ==
    StartsWith(text, <<"#", "#", "#">>) \/ (StartsWith(text, <<"*", "*">>) /\ EndsWith(text, <<"*", "*">>))
IsBoldHeader(text) ==
    /\ StartsWith(text, <<"*", "*">>) /\ EndsWith(text, <<"*", "*">>)
    /\ Count(text, <<"*", "*">>) = 2 /\ Len(text) > 4

\* one round of the block loop of gaming
GamingBlockHtml(text) ==
    IF text = <<>> THEN <<>>
    ELSE IF LooksLikeHeader(text) /\ ~AnyKeyword(Lower(text)) THEN <<>>
    ELSE IF StartsWith(text, <<"#", "#", "#">>) THEN Heading(HashTitle(text))
    ELSE IF IsBoldHeader(text) THEN Heading(BoldTitle(text))
    ELSE Paragraph(text)
RECURSIVE GamingBlocksHtml(_)
GamingBlocksHtml(blocks) ==
    IF blocks = <<>> THEN <<>>
    ELSE GamingBlockHtml(Strip(Head(blocks))) \o GamingBlocksHtml(Tail(blocks))

convert_summary_to_html_gaming(s) == GamingBlocksHtml(SplitOnStr(s, <<"\n", "\n">>))

\* the pieces a summary is put together from
SummaryChunks ==
    { <<"#", "#", "#">>, <<"#">>, <<"*", "*">>, <<" ">>, <<"E", "p", "i", "c">>, <<"x">>, <<"\n", "\n">>, <<"\n">>, <<"U", "p", "d", "a", "t", "e", "d", ":">> }
Summaries == UNION { { Concat(c) : c \in [1..n -> SummaryChunks] } : n \in 0..MaxSummaryChunks }

InitConv ==
    /\ vertical \in Verticals
    /\ NormIdle /\ DateIdle /\ ArchIdle /\ PageIdle /\ FetchIdle /\ RunIdle
    /\ summary \in Summaries
    /\ summaryHtml = <<>>
    /\ cpc = "call"

ConvertNews ==
    /\ cpc = "call" /\ vertical = "news"
    /\ summaryHtml' = main_summary_html(summary)
    /\ cpc' = "returned"
    /\ UNCHANGED <<vertical, normVars, dateVars, archVars, pageVars, summary, fetchVars, runVars>>

ConvertTech ==
    /\ cpc = "call" /\ vertical = "tech"
    /\ summaryHtml' = convert_summary_to_html_tech(summary)
    /\ cpc' = "returned"
    /\ UNCHANGED <<vertical, normVars, dateVars, archVars, pageVars, summary, fetchVars, runVars>>

ConvertGaming ==
    /\ cpc = "call" /\ vertical = "gaming"
    /\ summaryHtml' = convert_summary_to_html_gaming(summary)
    /\ cpc' = "returned"
    /\ UNCHANGED <<vertical, normVars, dateVars, archVars, pageVars, summary, fetchVars, runVars>>

NextConv == ConvertNews \/ ConvertTech \/ ConvertGaming
SpecConv == InitConv /\ [][NextConv]_vars

\* --- properties of the converter ------------------------------------------
\* s without the characters of cs at its two ends
Trimmed(s, cs) ==
    IF \A i \in 1..Len(s) : s[i] \in cs THEN <<>>
    ELSE SubSeq(s, MinOf({ i \in 1..Len(s) : s[i] \notin cs }),
                   MaxOf({ i \in 1..Len(s) : s[i] \notin cs }))
LeftTrimmed(s, cs) ==
    IF \A i \in 1..Len(s) : s[i] \in cs THEN <<>>
    ELSE SubSeq(s, MinOf({ i \in 1..Len(s) : s[i] \notin cs }), Len(s))
Begins(s, p) == OccursAt(s, p, 0)
Ends(s, p) == Len(s) >= Len(p) /\ OccursAt(s, p, Len(s) - Len(p))

\* the non-empty blocks between blank lines, whitespace at their ends dropped
NonEmpty(t) == t # <<>>
TrimAll(blocks) == [i \in 1..Len(blocks) |-> Trimmed(blocks[i], Whitespace)]
BlocksOf(s) == SelectSeq(TrimAll(SplitOnStr(s, <<"\n", "\n">>)), NonEmpty)
\* (news) the text without the lines that begin with "Updated:"
IsKeptLine(line) == ~Begins(Trimmed(line, Whitespace), <<"U", "p", "d", "a", "t", "e", "d", ":">>)
KeptLines(s) == Join(<<"\n">>, SelectSeq(SplitOn(s, "\n"), IsKeptLine))

NamesAGame(t) ==
    \E i \in 1..Len(GAME_KEYWORDS) : \E k \in Positions(t) : OccursAt(Lower(t), GAME_KEYWORDS[i], k)
IsHashHeading(t) == Begins(t, <<"#", "#", "#">>)
IsBoldBlock(t) == Begins(t, <<"*", "*">>) /\ Ends(t, <<"*", "*">>)
IsOnePairBold(t) == IsBoldBlock(t) /\ Len(t) > 4 /\ Count(t, <<"*", "*">>) = 2

\* what becomes of one block in vertical v: nothing, a heading, or a paragraph
Rendered(v, t) ==
    IF v = "gaming" /\ (IsHashHeading(t) \/ IsBoldBlock(t)) /\ ~NamesAGame(t) THEN <<>>
    ELSE IF IsHashHeading(t)
    THEN <<"<", "h", "2", ">">> \o Trimmed(LeftTrimmed(t, {"#"}), Whitespace) \o <<"<", "/", "h", "2", ">", "\n">>
    ELSE IF v = "gaming" /\ IsOnePairBold(t)
    THEN <<"<", "h", "2", ">">> \o Trimmed(Trimmed(t, {"*"}), Whitespace) \o <<"<", "/", "h", "2", ">", "\n">>
    ELSE <<"<", "p", ">">> \o t \o <<"<", "/", "p", ">", "\n">>
RenderedAll(v, blocks) == Concat([i \in 1..Len(blocks) |-> Rendered(v, blocks[i])])

\* C8 (as amended): the blocks are the non-empty, whitespace-trimmed pieces
\* between blank lines (news: after the lines starting with "Updated:" are
\* taken out).  In news and tech a block starting with "###" becomes a
\* heading, its text the block without its leading '#'s and surrounding
\* whitespace, and every other block (a "**...**" block, a block starting
\* with one or two '#') becomes a paragraph with the same text.  In gaming a
\* block that starts with "###", or starts and ends with "**", and names none
\* of the gaming keywords is dropped; of the others a "###" block becomes a
\* heading as above, a block longer than 4 characters that starts and ends
\* with "**" and holds exactly two "**" becomes a heading with the '*'s and
\* whitespace at its ends stripped, any other block a paragraph with the same
\* text.  The output blocks are in source order.
C8_BlockClassification ==
    cpc = "returned" =>
        summaryHtml = RenderedAll(vertical,
                        BlocksOf(IF vertical = "news" THEN KeptLines(summary) ELSE summary))

C8_Witness ==
    /\ cpc = "returned" /\ vertical = "news"
    /\ summary = <<"#", "#", "#", "E", "p", "i", "c", "\n", "\n", "x">>
    /\ summaryHtml = <<"<", "h", "2", ">", "E", "p", "i", "c", "<", "/", "h", "2", ">", "\n", "<", "p", ">", "x", "<", "/", "p", ">", "\n">>

C8_WitnessBold ==
    /\ cpc = "returned" /\ vertical = "gaming"
    /\ summary = <<"*", "*", "E", "p", "i", "c", "*", "*">>
    /\ summaryHtml = <<"<", "h", "2", ">", "E", "p", "i", "c", "<", "/", "h", "2", ">", "\n">>

C8_WitnessDropped ==
    /\ cpc = "returned" /\ vertical = "gaming"
    /\ summary = <<"#", "#", "#", "x", "\n", "\n", "x">>
    /\ summaryHtml = <<"<", "p", ">", "x", "<", "/", "p", ">", "\n">>

\* what becomes of one block by the statement: '#' at the start makes a
\* heading, one pair of "**" around more than nothing makes a heading, any
\* other block is a paragraph
RenderedAsStated(t) ==
    IF Begins(t, <<"#">>)
    THEN <<"<", "h", "2", ">">> \o Trimmed(LeftTrimmed(t, {"#"}), Whitespace) \o <<"<", "/", "h", "2", ">", "\n">>
    ELSE IF IsOnePairBold(t)
    THEN <<"<", "h", "2", ">">> \o Trimmed(Trimmed(t, {"*"}), Whitespace) \o <<"<", "/", "h", "2", ">", "\n">>
    ELSE <<"<", "p", ">">> \o t \o <<"<", "/", "p", ">", "\n">>
RenderedAllAsStated(blocks) == Concat([i \in 1..Len(blocks) |-> RenderedAsStated(blocks[i])])

\* C8 (as stated): in every vertical each block is classified by the three
\* rules above.
C8_Original ==
    cpc = "returned" => summaryHtml = RenderedAllAsStated(BlocksOf(summary))

\* ------------------------------------------------------------------------
\* FeedFetcher: the feed loop of fetch_rss_items
\* ------------------------------------------------------------------------
\* the <title> texts a feed item can carry, as findtext returns them
\* ("" also stands for an item without <title>)
RawTitles == { <<"A">>, <<" ", "B">>, <<" ">>, <<>> }
FeedTitleSeqs == UNION { [1..n -> RawTitles] : n \in 0..MaxFeedItems }
\* what one feed answers: a document with items, or one of the three failures
\* (requests.get raises, raise_for_status raises, ET.fromstring raises)
FailureKinds == {"network", "status", "xml"}
Responses ==
    { [kind |-> "ok", titles |-> t] : t \in FeedTitleSeqs }
        \cup { [kind |-> k, titles |-> <<>>] : k \in FailureKinds }

\* the items the inner loop appends for feed f: those whose stripped title
\* is not empty; the link field tells the feed and the place in it
FeedItem(f, i, title) == Item(Strip(title), <<f, i>>)
RECURSIVE AppendItems(_, _, _, _)
AppendItems(acc, f, titles, i) ==
    IF i > Len(titles) THEN acc
    ELSE IF Strip(titles[i]) # <<>>
    THEN AppendItems(Append(acc, FeedItem(f, i, titles[i])), f, titles, i + 1)
    ELSE AppendItems(acc, f, titles, i + 1)

InitFetch ==
    /\ vertical \in Verticals
    /\ NormIdle /\ DateIdle /\ ArchIdle /\ PageIdle /\ ConvIdle /\ RunIdle
    /\ nFeeds \in 0..MaxFeeds
    /\ responses = <<>> /\ fetchErrors = <<>> /\ rawItems = <<>>
    /\ fpc = "start"

\* news and tech: the function is entered, items = []
FetchStart ==
    /\ fpc = "start" /\ vertical \in {"news", "tech"}
    /\ fpc' = "loop"
    /\ UNCHANGED <<vertical, normVars, dateVars, archVars, pageVars, convVars,
                   nFeeds, responses, fetchErrors, rawItems, runVars>>

\* gaming: the interpreter rejects gaming_generator.py (IndentationError,
\* line 57: items.append is indented below the dedented line 55), so no
\* statement of the module runs and no feed is requested
GamingModuleRejected ==
    /\ fpc = "start" /\ vertical = "gaming"
    /\ fpc' = "syntax_error"
    /\ UNCHANGED <<vertical, normVars, dateVars, archVars, pageVars, convVars,
                   nFeeds, responses, fetchErrors, rawItems, runVars>>

\* one round of the feed loop whose try block runs to its end
FetchFeedOk ==
    /\ fpc = "loop" /\ Len(responses) < nFeeds
    /\ \E r \in Responses :
        /\ r.kind = "ok"
        /\ responses' = Append(responses, r)
        /\ rawItems' = AppendItems(rawItems, Len(responses) + 1, r.titles, 1)
    /\ UNCHANGED <<vertical, normVars, dateVars, archVars, pageVars, convVars,
                   nFeeds, fetchErrors, fpc, runVars>>

\* one round of the feed loop whose try block raises: caught, printed, and
\* the loop goes on with the next feed
FetchFeedFails ==
    /\ fpc = "loop" /\ Len(responses) < nFeeds
    /\ \E r \in Responses :
        /\ r.kind \in FailureKinds
        /\ responses' = Append(responses, r)
        /\ fetchErrors' = Append(fetchErrors, Len(responses) + 1)
    /\ UNCHANGED <<vertical, normVars, dateVars, archVars, pageVars, convVars,
                   nFeeds, rawItems, fpc, runVars>>

\* the feed list is exhausted
FetchLoopEnds ==
    /\ fpc = "loop" /\ Len(responses) = nFeeds
    /\ fpc' = "fetched"
    /\ UNCHANGED <<vertical, normVars, dateVars, archVars, pageVars, convVars,
                   nFeeds, responses, fetchErrors, rawItems, runVars>>

NextFetch ==
    FetchStart \/ GamingModuleRejected \/ FetchFeedOk \/ FetchFeedFails \/ FetchLoopEnds
SpecFetch == InitFetch /\ [][NextFetch]_vars

\* --- properties of the fetcher ---------------------------------------------
\* the items of one successful feed that carry a title, in the feed's order
TitledPlaces(r) == SelectSeq([i \in 1..Len(r.titles) |-> i], LAMBDA i : Trimmed(r.titles[i], Whitespace) # <<>>)
TitledItems(r, f) ==
    [k \in 1..Len(TitledPlaces(r)) |->
        [title |-> Trimmed(r.titles[TitledPlaces(r)[k]], Whitespace), link |-> <<f, TitledPlaces(r)[k]>>]]
RECURSIVE ItemsOfFeeds(_, _)
ItemsOfFeeds(rs, f) ==
    IF f > Len(rs) THEN <<>>
    ELSE (IF rs[f].kind = "ok" THEN TitledItems(rs[f], f) ELSE <<>>) \o ItemsOfFeeds(rs, f + 1)
FetchEnded == fpc \in {"fetched", "syntax_error"}

\* C11: whichever feeds fail, every feed of the list is attempted, and the
\* raw items are the titled items of the successful feeds, feed after feed in
\* list order, each feed's items in the feed's order.
C11_EveryFeedAttempted ==
    FetchEnded => (Len(responses) = nFeeds /\ rawItems = ItemsOfFeeds(responses, 1))

\* C11, news and tech only: the statement holds where the module loads.
C11_NewsTechFetch ==
    (FetchEnded /\ vertical \in {"news", "tech"}) =>
        /\ Len(responses) = nFeeds /\ rawItems = ItemsOfFeeds(responses, 1)
        /\ fetchErrors = SelectSeq([f \in 1..nFeeds |-> f], LAMBDA f : responses[f].kind # "ok")
C11_WitnessNewsTech ==
    /\ fpc = "fetched" /\ vertical = "news" /\ nFeeds = 3
    /\ responses[1].kind = "ok" /\ responses[2].kind = "xml" /\ responses[3].kind = "ok"
    /\ responses[1].titles = <<<<"A">>, <<" ">>>> /\ responses[3].titles = <<<<" ", "B">>>>
    /\ rawItems = <<[title |-> <<"A">>, link |-> <<1, 1>>], [title |-> <<"B">>, link |-> <<3, 1>>]>>
\* the gaming run: it ends before the first feed
C11_WitnessGaming ==
    fpc = "syntax_error" /\ vertical = "gaming" /\ nFeeds = 3 /\ responses = <<>>

\* ------------------------------------------------------------------------
\* main: one run of a generator, from the result of fetch_rss_items on
\* (gaming's main is modelled as written; the file as shipped does not load,
\* see GamingModuleRejected)
\* ------------------------------------------------------------------------
\* today's archive file ({date_slug}.html) and the instant of the run
TodayFile == <<"2", "0", "2", "4", "-", "0", "1", "-", "1", "0", ".", "h", "t", "m", "l">>
RunInstant == "t1"
FallbackHtml == <<"<", "p", ">", "W", "e", " ", "c", "o", "u", "l", "d", "n", "'", "t", " ", "f", "e", "t", "c", "h", " ", "a", "n", "y", " ", "n", "e", "w", "s", " ", "r", "i", "g", "h", "t", " ", "n", "o", "w", ".", " ", "P", "l", "e", "a", "s", "e", " ", "c", "h", "e", "c", "k", " ", "b", "a", "c", "k", " ", "l", "a", "t", "e", "r", ".", "<", "/", "p", ">">>

\* what fetch_rss_items hands to main: nothing, or one item
RunItem == [title |-> <<"A">>, link |-> <<"L">>, pub_date_raw |-> <<>>]
RunItemLists == { <<>>, <<RunItem>> }

\* news_generator.build_sources_html
SourceLi(it) ==
    <<"<", "l", "i", ">", "<", "a", " ", "h", "r", "e", "f", "=", "\"">> \o it.link \o <<"\"", " ", "t", "a", "r", "g", "e", "t", "=", "\"", "_", "b", "l", "a", "n", "k", "\"", " ", "r", "e", "l", "=", "\"", "n", "o", "o", "p", "e", "n", "e", "r", " ", "n", "o", "r", "e", "f", "e", "r", "r", "e", "r", "\"", ">">> \o it.title
        \o <<"<", "/", "a", ">", " ", "<", "s", "p", "a", "n", " ", "c", "l", "a", "s", "s", "=", "\"", "s", "o", "u", "r", "c", "e", "-", "d", "a", "t", "e", "\"", ">", "(">> \o format_pub_date(it.pub_date_raw).value \o <<")", "<", "/", "s", "p", "a", "n", ">", "<", "/", "l", "i", ">">>
build_sources_html(its) ==
    IF its = <<>> THEN <<>>
    ELSE <<"<", "h", "2", " ", "c", "l", "a", "s", "s", "=", "\"", "s", "o", "u", "r", "c", "e", "s", "-", "t", "i", "t", "l", "e", "\"", ">", "S", "o", "u", "r", "c", "e", "s", " ", "&", "a", "m", "p", ";", " ", "D", "a", "t", "e", "s", "<", "/", "h", "2", ">", "\n", "<", "u", "l", ">", "\n">>
            \o Join(<<"\n">>, [i \in 1..Len(its) |-> SourceLi(its[i])]) \o <<"\n", "<", "/", "u", "l", ">">>

\* the article HTML main builds from the summary
ArticleHtml(v, s, its) ==
    IF v = "news" THEN main_summary_html(s) \o <<"\n", "<", "h", "r", " ", "/", ">", "\n">> \o build_sources_html(its)
    ELSE IF v = "tech" THEN convert_summary_to_html_tech(s)
    ELSE convert_summary_to_html_gaming(s)

\* the order of main's statements: what runs after the fetch, after the
\* conversion, after the main-page update
Mut_AfterFetch(v, its) == "oracle"
AfterFetch(v, its) ==
    IF its = <<>> THEN (IF v = "news" THEN "fallback_index" ELSE "done") ELSE "oracle"
Mut_AfterConvert(v) == "update_main"
AfterConvert(v) == IF v = "tech" THEN "update_main" ELSE "write_archive"
AfterMainPage(v) == IF v = "tech" THEN "done" ELSE "refresh_list"

\* the main-page and archive-list mutations of the three generators
UpdateMain(v, html, article_html, ts) ==
    IF v = "news" THEN update_index_html(html, article_html, ts)
    ELSE IF v = "tech" THEN update_tech_page(html, article_html, ts)
    ELSE update_gaming_page(html, article_html, ts)
UpdateList(v, html, isdir, l) ==
    IF v = "news" THEN update_archive_list_on_index(html, isdir, l)
    ELSE update_gaming_archive_list_on_page(html, isdir, l)
MainOp(v) ==
    IF v = "news" THEN "update_index_html" ELSE IF v = "tech" THEN "update_tech_page" ELSE "update_gaming_page"
ListOp(v) ==
    IF v = "news" THEN "update_archive_list_on_index" ELSE "update_gaming_archive_list_on_page"

\* a call main made: its name, whether it returned, and what it was handed
Effect(op, ok, arg) == [op |-> op, ok |-> ok, arg |-> arg]

\* os.listdir after {date_slug}.html was written: the name is there once, at
\* a place of the system's choosing
ListingsWith(l, name) ==
    IF \E i \in 1..Len(l) : l[i] = name THEN {l}
    ELSE { SubSeq(l, 1, k) \o <<name>> \o SubSeq(l, k + 1, Len(l)) : k \in 0..Len(l) }

\* the pages a run starts from: the regions all there, the article anchor
\* missing, the article's closing tag missing, the archive list missing
RunPages(v) ==
    IF v = "news"
    THEN { <<"<", "d", "i", "v", " ", "i", "d", "=", "\"", "a", "r", "t", "i", "c", "l", "e", "\"", ">", "o", "<", "/", "d", "i", "v", ">", "<", "u", "l", " ", "i", "d", "=", "\"", "a", "r", "c", "h", "i", "v", "e", "-", "l", "i", "s", "t", "\"", ">", "o", "<", "/", "u", "l", ">", "<", "/", "b", "o", "d", "y", ">">>,
           <<"<", "u", "l", " ", "i", "d", "=", "\"", "a", "r", "c", "h", "i", "v", "e", "-", "l", "i", "s", "t", "\"", ">", "o", "<", "/", "u", "l", ">", "<", "/", "b", "o", "d", "y", ">">>,
           <<"<", "u", "l", " ", "i", "d", "=", "\"", "a", "r", "c", "h", "i", "v", "e", "-", "l", "i", "s", "t", "\"", ">", "o", "<", "/", "u", "l", ">", "<", "d", "i", "v", " ", "i", "d", "=", "\"", "a", "r", "t", "i", "c", "l", "e", "\"", ">", "o", "<", "/", "b", "o", "d", "y", ">">>,
           <<"<", "d", "i", "v", " ", "i", "d", "=", "\"", "a", "r", "t", "i", "c", "l", "e", "\"", ">", "o", "<", "/", "d", "i", "v", ">", "<", "/", "b", "o", "d", "y", ">">> }
    ELSE IF v = "tech"
    THEN { <<"<", "d", "i", "v", " ", "i", "d", "=", "\"", "a", "r", "t", "i", "c", "l", "e", "\"", ">", "o", "<", "/", "d", "i", "v", ">", "<", "/", "b", "o", "d", "y", ">">>, <<"o", "<", "/", "b", "o", "d", "y", ">">>, <<"<", "d", "i", "v", " ", "i", "d", "=", "\"", "a", "r", "t", "i", "c", "l", "e", "\"", ">", "o", "<", "/", "b", "o", "d", "y", ">">> }
    ELSE { <<"<", "d", "i", "v", " ", "i", "d", "=", "\"", "a", "r", "t", "i", "c", "l", "e", "\"", ">", "o", "<", "/", "d", "i", "v", ">", "<", "u", "l", " ", "i", "d", "=", "\"", "g", "a", "m", "i", "n", "g", "-", "a", "r", "c", "h", "i", "v", "e", "-", "l", "i", "s", "t", "\"", ">", "o", "<", "/", "u", "l", ">", "<", "/", "b", "o", "d", "y", ">">>,
           <<"<", "u", "l", " ", "i", "d", "=", "\"", "g", "a", "m", "i", "n", "g", "-", "a", "r", "c", "h", "i", "v", "e", "-", "l", "i", "s", "t", "\"", ">", "o", "<", "/", "u", "l", ">", "<", "/", "b", "o", "d", "y", ">">>,
           <<"<", "u", "l", " ", "i", "d", "=", "\"", "g", "a", "m", "i", "n", "g", "-", "a", "r", "c", "h", "i", "v", "e", "-", "l", "i", "s", "t", "\"", ">", "o", "<", "/", "u", "l", ">", "<", "d", "i", "v", " ", "i", "d", "=", "\"", "a", "r", "t", "i", "c", "l", "e", "\"", ">", "o", "<", "/", "b", "o", "d", "y", ">">>,
           <<"<", "d", "i", "v", " ", "i", "d", "=", "\"", "a", "r", "t", "i", "c", "l", "e", "\"", ">", "o", "<", "/", "d", "i", "v", ">", "<", "/", "b", "o", "d", "y", ">">> }
RunDirs ==
    { [exists |-> FALSE, listing |-> <<>>],
      [exists |-> TRUE, listing |-> <<>>],
      [exists |-> TRUE, listing |-> <<<<"2", "0", "2", "4", "-", "0", "1", "-", "0", "2", ".", "h", "t", "m", "l">>>>],
      [exists |-> TRUE, listing |-> <<<<"2", "0", "2", "4", "-", "0", "1", "-", "0", "2", ".", "h", "t", "m", "l">>, <<"2", "0", "2", "4", "-", "0", "1", "-", "1", "0", ".", "h", "t", "m", "l">>>>] }
\* what the oracle answers, before ask_chatgpt strips it
OracleTexts == { <<"x", "\n">>, <<"#", "#", "#", "E", "p", "i", "c", "\n", "\n", "x">>, <<"U", "p", "d", "a", "t", "e", "d", ":", " ", "x", "\n", "\n", "x">>, <<" ">> }

runFrame ==
    <<vertical, normVars, dateVars, archiveOut, apc, pageKind, ppc, lastOp, file0, fileBefore,
      cpc, fetchVars, runItems, dir0>>

InitRun ==
    /\ vertical \in Verticals
    /\ NormIdle /\ DateIdle /\ FetchIdle /\ ConvIdle
    /\ archiveOut = <<>> /\ apc = "idle"
    /\ dir0 \in RunDirs /\ dirExists = dir0.exists /\ listing = dir0.listing
    /\ file \in RunPages(vertical) /\ file0 = file /\ fileBefore = file
    /\ content = <<>> /\ pageKind = "run" /\ ppc = "run" /\ lastOp = NoOp
    /\ runItems \in RunItemLists
    /\ rpc = "fetch" /\ effects = <<>>

\* items = fetch_rss_items(); if not items: ...
FetchReturns ==
    /\ rpc = "fetch"
    /\ rpc' = AfterFetch(vertical, runItems)
    /\ UNCHANGED <<runFrame, file, content, dirExists, listing, summary, summaryHtml, effects>>

\* news, no items: update_index_html(fallback_html)
NewsFallbackIndex ==
    /\ rpc = "fallback_index"
    /\ content' = FallbackHtml
    /\ file' = IF update_index_html(file, FallbackHtml, RunInstant).written
               THEN update_index_html(file, FallbackHtml, RunInstant).html ELSE file
    /\ effects' = Append(effects, Effect("update_index_html",
                            ~update_index_html(file, FallbackHtml, RunInstant).error, FallbackHtml))
    /\ rpc' = IF update_index_html(file, FallbackHtml, RunInstant).error THEN "failed" ELSE "fallback_list"
    /\ UNCHANGED <<runFrame, dirExists, listing, summary, summaryHtml>>

\* news, no items: update_archive_list_on_index(); return
NewsFallbackArchiveList ==
    /\ rpc = "fallback_list"
    /\ file' = IF update_archive_list_on_index(file, dirExists, listing).written
               THEN update_archive_list_on_index(file, dirExists, listing).html ELSE file
    /\ effects' = Append(effects, Effect("update_archive_list_on_index", TRUE, <<>>))
    /\ rpc' = "done"
    /\ UNCHANGED <<runFrame, content, dirExists, listing, summary, summaryHtml>>

\* prompt = build_prompt(items); summary = ask_chatgpt(prompt)
AskOracle ==
    /\ rpc = "oracle"
    /\ \E text \in OracleTexts : summary' = Strip(text)
    /\ effects' = Append(effects, Effect("ask_chatgpt", TRUE, <<>>))
    /\ rpc' = "convert"
    /\ UNCHANGED <<runFrame, file, content, dirExists, listing, summaryHtml>>

\* the request to the oracle raises: main ends with the exception
OracleRaises ==
    /\ rpc = "oracle"
    /\ effects' = Append(effects, Effect("ask_chatgpt", FALSE, <<>>))
    /\ rpc' = "failed"
    /\ UNCHANGED <<runFrame, file, content, dirExists, listing, summary, summaryHtml>>

\* the conversion of the summary (news: with the sources list appended)
ConvertSummary ==
    /\ rpc = "convert"
    /\ summaryHtml' = ArticleHtml(vertical, summary, runItems)
    /\ content' = ArticleHtml(vertical, summary, runItems)
    /\ rpc' = AfterConvert(vertical)
    /\ UNCHANGED <<runFrame, file, dirExists, listing, summary, effects>>

\* write_archive_page / write_gaming_archive_page
WriteArchivePage ==
    /\ rpc = "write_archive"
    /\ dirExists' = TRUE
    /\ listing' \in ListingsWith(listing, TodayFile)
    /\ effects' = Append(effects, Effect("write_archive_page", TRUE, content))
    /\ rpc' = "update_main"
    /\ UNCHANGED <<runFrame, file, content, summary, summaryHtml>>

\* update_index_html / update_tech_page / update_gaming_page
UpdateMainPage ==
    /\ rpc = "update_main"
    /\ file' = IF UpdateMain(vertical, file, content, RunInstant).written
               THEN UpdateMain(vertical, file, content, RunInstant).html ELSE file
    /\ effects' = Append(effects, Effect(MainOp(vertical),
                            ~UpdateMain(vertical, file, content, RunInstant).error, content))
    /\ rpc' = IF UpdateMain(vertical, file, content, RunInstant).error
              THEN "failed" ELSE AfterMainPage(vertical)
    /\ UNCHANGED <<runFrame, content, dirExists, listing, summary, summaryHtml>>

\* update_archive_list_on_index / update_gaming_archive_list_on_page
RefreshArchiveList ==
    /\ rpc = "refresh_list"
    /\ file' = IF UpdateList(vertical, file, dirExists, listing).written
               THEN UpdateList(vertical, file, dirExists, listing).html ELSE file
    /\ effects' = Append(effects, Effect(ListOp(vertical),
                            ~UpdateList(vertical, file, dirExists, listing).error, <<>>))
    /\ rpc' = IF UpdateList(vertical, file, dirExists, listing).error THEN "failed" ELSE "done"
    /\ UNCHANGED <<runFrame, content, dirExists, listing, summary, summaryHtml>>

NextRun ==
    \/ FetchReturns \/ NewsFallbackIndex \/ NewsFallbackArchiveList
    \/ AskOracle \/ OracleRaises \/ ConvertSummary
    \/ WriteArchivePage \/ UpdateMainPage \/ RefreshArchiveList
SpecRun == InitRun /\ [][NextRun]_vars

\* --- properties of a run ----------------------------------------------------
RunEnded == rpc \in {"done", "failed"}
Called(op) == \E i \in 1..Len(effects) : effects[i].op = op
ArchiveDirUnchanged == dirExists = dir0.exists /\ listing = dir0.listing

\* C12: a run that fetched no items never calls the oracle and writes no
\* archive file.  In tech and gaming it makes no call at all and the main page
\* stays as it was.  In news its first call is the article mutation with the
\* "couldn't fetch any news" placeholder, and when that call returns the page
\* holds the placeholder and the next and last call is the archive-list
\* refresh; when it raises (C7) the run ends there with the page unchanged.
C12_NoItemsRun ==
    (RunEnded /\ runItems = <<>>) =>
        /\ ~Called("ask_chatgpt") /\ ~Called("write_archive_page")
        /\ ArchiveDirUnchanged
        /\ IF vertical \in {"tech", "gaming"}
           THEN effects = <<>> /\ file = file0 /\ rpc = "done"
           ELSE /\ Len(effects) >= 1
                /\ effects[1].op = "update_index_html" /\ effects[1].arg = FallbackHtml
                /\ effects[1].ok =>
                    /\ Len(effects) = 2 /\ effects[2].op = "update_archive_list_on_index"
                    /\ rpc = "done"
                    /\ Contains(file, <<"c", "o", "u", "l", "d", "n", "'", "t", " ", "f", "e", "t", "c", "h", " ", "a", "n", "y", " ", "n", "e", "w", "s">>)
                    /\ Contains(file0, <<"i", "d", "=", "\"", "a", "r", "t", "i", "c", "l", "e", "\"">>) =>
                            Contains(file, <<">">> \o NewsArticleInner(FallbackHtml, RunInstant) \o <<"<", "/", "d", "i", "v", ">">>)
                /\ ~effects[1].ok => (Len(effects) = 1 /\ rpc = "failed" /\ file = file0)

C12_Witness ==
    /\ rpc = "done" /\ vertical = "news" /\ runItems = <<>>
    /\ file0 = <<"<", "d", "i", "v", " ", "i", "d", "=", "\"", "a", "r", "t", "i", "c", "l", "e", "\"", ">", "o", "<", "/", "d", "i", "v", ">", "<", "u", "l", " ", "i", "d", "=", "\"", "a", "r", "c", "h", "i", "v", "e", "-", "l", "i", "s", "t", "\"", ">", "o", "<", "/", "u", "l", ">", "<", "/", "b", "o", "d", "y", ">">>
    /\ dir0.listing = <<<<"2", "0", "2", "4", "-", "0", "1", "-", "0", "2", ".", "h", "t", "m", "l">>>>
    /\ file = <<"<", "d", "i", "v", " ", "i", "d", "=", "\"", "a", "r", "t", "i", "c", "l", "e", "\"", ">", "\n", "<", "p", " ", "c", "l", "a", "s", "s", "=", "\"", "a", "r", "t", "i", "c", "l", "e", "-", "d", "a", "t", "e", "\"", ">", "U", "p", "d", "a", "t", "e", "d", ":", " ", "<", "s", "p", "a", "n", " ", "i", "d", "=", "\"", "u", "p", "d", "a", "t", "e", "d", "-", "d", "a", "t", "e", "\"", " ", "d", "a", "t", "a", "-", "t", "s", "=", "\"">>
                \o <<RunInstant>> \o <<"\"", ">", "<", "/", "s", "p", "a", "n", ">", "<", "/", "p", ">", "\n", "<", "p", ">", "W", "e", " ", "c", "o", "u", "l", "d", "n", "'", "t", " ", "f", "e", "t", "c", "h", " ", "a", "n", "y", " ", "n", "e", "w", "s", " ", "r", "i", "g", "h", "t", " ", "n", "o", "w", ".", " ", "P", "l", "e", "a", "s", "e", " ", "c", "h", "e", "c", "k", " ", "b", "a", "c", "k", " ", "l", "a", "t", "e", "r", ".", "<", "/", "p", ">", "\n", "<", "/", "d", "i", "v", ">">>
                \o <<"<", "u", "l", " ", "i", "d", "=", "\"", "a", "r", "c", "h", "i", "v", "e", "-", "l", "i", "s", "t", "\"", ">", "\n", "<", "l", "i", ">", "<", "a", " ", "h", "r", "e", "f", "=", "\"", "a", "r", "c", "h", "i", "v", "e", "s", "/", "2", "0", "2", "4", "-", "0", "1", "-", "0", "2", ".", "h", "t", "m", "l", "\"", ">", "J", "a", "n", "u", "a", "r", "y", " ", "0", "2", ",", " ", "2", "0", "2", "4", "<", "/", "a", ">", "<", "/", "l", "i", ">", "\n", "<", "/", "u", "l", ">", "<", "/", "b", "o", "d", "y", ">">>

C12_WitnessTech ==
    /\ rpc = "done" /\ vertical = "tech" /\ runItems = <<>>
    /\ effects = <<>> /\ file = file0 /\ file0 = <<"<", "d", "i", "v", " ", "i", "d", "=", "\"", "a", "r", "t", "i", "c", "l", "e", "\"", ">", "o", "<", "/", "d", "i", "v", ">", "<", "/", "b", "o", "d", "y", ">">>

\* C15 (as amended): in a run of news or gaming that fetched items, the dated
\* archive file is written BEFORE the main page's article region is replaced,
\* and the archive list of the main page is rebuilt after that replacement
\* has returned: the call just before the main-page mutation is the archive
\* write, the call just before the list rebuild is the main-page mutation.  A
\* run whose main-page mutation raises has therefore already written today's
\* archive file; it leaves the main page as it was and does not rebuild the
\* archive list.
C15_ArchiveWrittenFirst ==
    (vertical \in {"news", "gaming"} /\ runItems # <<>>) =>
        /\ \A i \in 1..Len(effects) : effects[i].op = MainOp(vertical) =>
                (i > 1 /\ effects[i - 1].op = "write_archive_page")
        /\ \A i \in 1..Len(effects) : effects[i].op = ListOp(vertical) =>
                (i > 1 /\ effects[i - 1].op = MainOp(vertical) /\ effects[i - 1].ok)
        /\ \A i \in 1..Len(effects) : (effects[i].op = MainOp(vertical) /\ ~effects[i].ok) =>
                /\ dirExists /\ \E k \in 1..Len(listing) : listing[k] = TodayFile
                /\ ~Called(ListOp(vertical)) /\ file = file0 /\ rpc = "failed"

C15_Witness ==
    /\ rpc = "failed" /\ vertical = "news" /\ runItems # <<>>
    /\ dir0 = [exists |-> FALSE, listing |-> <<>>]
    /\ Len(effects) = 3 /\ effects[3].op = "update_index_html" /\ ~effects[3].ok
    /\ dirExists /\ listing = <<TodayFile>>

C15_WitnessDone ==
    /\ rpc = "done" /\ vertical = "gaming" /\ runItems # <<>>
    /\ [i \in 1..Len(effects) |-> effects[i].op] =
          <<"ask_chatgpt", "write_archive_page", "update_gaming_page", "update_gaming_archive_list_on_page">>

\* C15 (as stated): no archive file is written before the main-page mutation
\* has completed, and a run whose main-page mutation fails leaves the archive
\* directory unchanged.
C15_Original ==
    vertical \in {"news", "gaming"} =>
        /\ \A i \in 1..Len(effects) : effects[i].op = "write_archive_page" =>
                \E j \in 1..(i - 1) : effects[j].op = MainOp(vertical) /\ effects[j].ok
        /\ (\E i \in 1..Len(effects) : effects[i].op = MainOp(vertical) /\ ~effects[i].ok) =>
                ArchiveDirUnchanged

\* --- further properties of the converter ------------------------------------
\* C13: in every vertical the lines that start with "Updated:" are taken out
\* of the oracle text before it is split into blocks: the HTML is what the
\* vertical's block rules give for the text without those lines.
C13_UpdatedLinesRemoved ==
    cpc = "returned" => summaryHtml = RenderedAll(vertical, BlocksOf(KeptLines(summary)))

\* C13, news only: main takes the lines out (389-392).
C13_NewsRemovesUpdatedLines ==
    (cpc = "returned" /\ vertical = "news") =>
        summaryHtml = RenderedAll("news", BlocksOf(KeptLines(summary)))
C13_WitnessNews ==
    /\ cpc = "returned" /\ vertical = "news"
    /\ summary = <<"U", "p", "d", "a", "t", "e", "d", ":", "x", "\n", "\n", "x">> /\ summaryHtml = <<"<", "p", ">", "x", "<", "/", "p", ">", "\n">>
\* tech: the line is rendered as a paragraph
C13_WitnessTech ==
    /\ cpc = "returned" /\ vertical = "tech"
    /\ summary = <<"U", "p", "d", "a", "t", "e", "d", ":", "x", "\n", "\n", "x">> /\ summaryHtml = <<"<", "p", ">", "U", "p", "d", "a", "t", "e", "d", ":", "x", "<", "/", "p", ">", "\n", "<", "p", ">", "x", "<", "/", "p", ">", "\n">>

\* what becomes of one gaming block by the statement: a heading block ("###",
\* or one bold pair around the text) that names no keyword is dropped, and
\* nothing else is
RenderedHeaderOnlyFilter(t) ==
    IF (IsHashHeading(t) \/ IsOnePairBold(t)) /\ ~NamesAGame(t) THEN <<>>
    ELSE IF IsHashHeading(t)
    THEN <<"<", "h", "2", ">">> \o Trimmed(LeftTrimmed(t, {"#"}), Whitespace) \o <<"<", "/", "h", "2", ">", "\n">>
    ELSE IF IsOnePairBold(t)
    THEN <<"<", "h", "2", ">">> \o Trimmed(Trimmed(t, {"*"}), Whitespace) \o <<"<", "/", "h", "2", ">", "\n">>
    ELSE <<"<", "p", ">">> \o t \o <<"<", "/", "p", ">", "\n">>

\* C14: the gaming converter drops a block if and only if it is a heading
\* block that names none of the keywords; every block classified as a
\* paragraph is in the output.
C14_OnlyHeadingsDropped ==
    (cpc = "returned" /\ vertical = "gaming") =>
        summaryHtml = Concat([i \in 1..Len(BlocksOf(summary)) |-> RenderedHeaderOnlyFilter(BlocksOf(summary)[i])])

\* a paragraph after a dropped heading stays
C14_WitnessParagraphKept ==
    /\ cpc = "returned" /\ vertical = "gaming"
    /\ summary = <<"#", "#", "#", "x", "\n", "\n", "x">> /\ summaryHtml = <<"<", "p", ">", "x", "<", "/", "p", ">", "\n">>
\* a block between "**" and "**" that is no heading is dropped all the same
C14_WitnessParagraphDropped ==
    /\ cpc = "returned" /\ vertical = "gaming"
    /\ summary = <<"*", "*", "x", "*", "*", "*", "*">> /\ summaryHtml = <<>>

====
